---- MODULE Spec2Model ----
(***************************************************************************)
(* Model of the trade-validation comparison engine                         *)
(* (backend/app/services/comparison_engine.py).                            *)
(*                                                                         *)
(* Representation                                                          *)
(*   - a Python string is a sequence of one-character strings;             *)
(*   - a Python value is a record [t, s, n]: t is the type ("none",        *)
(*     "str", "int", "float"), s the characters of a str, n the number:    *)
(*     an int as itself, a float in tenths (1000000.5 is n = 10000005);    *)
(*   - confidences and min_confidence are floats in tenths (0.7 is 7);     *)
(*   - a tolerance_value is [some, x]: absent, or a float in tenths;       *)
(*   - candidate scores are in twentieths (1.0 is 20, 0.6 is 12,           *)
(*     0.25 is 5), added exactly.                                          *)
(***************************************************************************)
EXTENDS Integers, Sequences, FiniteSets, TLC

(***************************************************************************)
(* Bounds of the model.                                                    *)
(***************************************************************************)
MaxRules == 2
MaxCmp == 4
MaxCands == 2

(***************************************************************************)
(* Python strings: str.lower, str.strip, str(int), repr(float).            *)
(***************************************************************************)
UpperChars == <<"A", "B", "C", "D", "E", "F", "G", "H", "I", "J", "K", "L", "M",
                "N", "O", "P", "Q", "R", "S", "T", "U", "V", "W", "X", "Y", "Z">>

LowerChars == <<"a", "b", "c", "d", "e", "f", "g", "h", "i", "j", "k", "l", "m",
                "n", "o", "p", "q", "r", "s", "t", "u", "v", "w", "x", "y", "z">>

DigitChars == <<"0", "1", "2", "3", "4", "5", "6", "7", "8", "9">>

Whitespace == {" ", "\t", "\n"}

LowerOf ==
    [c \in {UpperChars[i] : i \in 1..Len(UpperChars)} |->
        LowerChars[CHOOSE i \in 1..Len(UpperChars) : UpperChars[i] = c]]

LowerChar(c) == IF c \in DOMAIN LowerOf THEN LowerOf[c] ELSE c

\* the one element of a singleton set; The({F(x) : x \in {e}}) is F(e) with e
\* evaluated once
The(S) == CHOOSE x \in S : TRUE

lower(s) == [i \in 1..Len(s) |-> LowerChar(s[i])]

strip(s) ==
    LET keep == {i \in 1..Len(s) : s[i] \notin Whitespace}
    IN  IF keep = {} THEN <<>>
        ELSE LET lo == CHOOSE i \in keep : \A j \in keep : i <= j
                 hi == CHOOSE i \in keep : \A j \in keep : i >= j
             IN  SubSeq(s, lo, hi)

DigitOf ==
    [c \in {DigitChars[i] : i \in 1..10} |-> (CHOOSE i \in 1..10 : DigitChars[i] = c) - 1]

IsDigit(c) == c \in DOMAIN DigitOf

DigitVal(c) == DigitOf[c]

IsDigits(s) == Len(s) > 0 /\ \A i \in 1..Len(s) : IsDigit(s[i])

RECURSIVE ToNat(_)
ToNat(s) ==
    IF Len(s) = 0 THEN 0
    ELSE 10 * ToNat(SubSeq(s, 1, Len(s) - 1)) + DigitVal(s[Len(s)])

RECURSIVE NatChars(_)
NatChars(n) ==
    IF n < 10 THEN <<DigitChars[n + 1]>>
    ELSE NatChars(n \div 10) \o <<DigitChars[(n % 10) + 1]>>

IntChars(n) == IF n < 0 THEN <<"-">> \o NatChars(-n) ELSE NatChars(n)

\* repr of a float held in tenths: 10000005 is 1000000.5, 10 is 1.0
FloatChars(x) ==
    LET a == IF x < 0 THEN -x ELSE x
    IN  (IF x < 0 THEN <<"-">> ELSE <<>>)
        \o NatChars(a \div 10) \o <<".">> \o NatChars(a % 10)

\* the same repr as one string, for the f-strings of rule_applied
FloatRepr(x) ==
    LET a == IF x < 0 THEN -x ELSE x
    IN  (IF x < 0 THEN "-" ELSE "") \o ToString(a \div 10) \o "." \o ToString(a % 10)

(***************************************************************************)
(* Python values.                                                          *)
(***************************************************************************)
PyNone == [t |-> "none", s |-> <<>>, n |-> 0]

PyStr(s) == [t |-> "str", s |-> s, n |-> 0]

PyInt(n) == [t |-> "int", s |-> <<>>, n |-> n]

PyFloat(x) == [t |-> "float", s |-> <<>>, n |-> x]

\* an int beyond the range of a float: 10 ** digits (1.8e308 is the largest float)
PyBigInt(digits) == [t |-> "bigint", s |-> <<>>, n |-> digits]

IsNum(v) == v.t \in {"int", "float"}

\* the number a numeric value stands for, in tenths
Tenths(v) == IF v.t = "int" THEN 10 * v.n ELSE v.n

\* str(value)
str(v) ==
    CASE v.t = "str" -> v.s
      [] v.t = "int" -> IntChars(v.n)
      [] v.t = "float" -> FloatChars(v.n)
      [] v.t = "bigint" -> <<"1">> \o [i \in 1..v.n |-> "0"]
      [] OTHER -> <<"N", "o", "n", "e">>

\* value == value
PyEq(a, b) ==
    CASE a.t = "none" /\ b.t = "none" -> TRUE
      [] a.t = "str" /\ b.t = "str" -> a.s = b.s
      [] IsNum(a) /\ IsNum(b) -> Tenths(a) = Tenths(b)
      [] a.t = "bigint" /\ b.t = "bigint" -> a.n = b.n
      [] OTHER -> FALSE

\* bool(value)
Truthy(v) ==
    CASE v.t = "none" -> FALSE
      [] v.t = "str" -> Len(v.s) > 0
      [] OTHER -> v.n # 0

\* float(text) for the decimal literals [-]digits[.digit], whitespace stripped;
\* any other text raises ValueError (ok = FALSE)
ParseFloat(s) ==
    LET t == strip(s)
        neg == Len(t) > 0 /\ t[1] = "-"
        u == IF neg THEN SubSeq(t, 2, Len(t)) ELSE t
        dots == {i \in 1..Len(u) : u[i] = "."}
        sign == IF neg THEN -1 ELSE 1
    IN  IF dots = {}
        THEN IF IsDigits(u) THEN [ok |-> TRUE, x |-> sign * 10 * ToNat(u)]
             ELSE [ok |-> FALSE, x |-> 0]
        ELSE LET d == CHOOSE i \in dots : TRUE
                 ip == SubSeq(u, 1, d - 1)
                 fp == SubSeq(u, d + 1, Len(u))
             IN  IF Cardinality(dots) = 1 /\ IsDigits(ip) /\ IsDigits(fp) /\ Len(fp) = 1
                 THEN [ok |-> TRUE, x |-> sign * (10 * ToNat(ip) + ToNat(fp))]
                 ELSE [ok |-> FALSE, x |-> 0]

\* float(value): TypeError for None, ValueError for text that is no number,
\* OverflowError for an int beyond the float range (ok = FALSE for all three)
float(v) ==
    CASE v.t = "none" -> [ok |-> FALSE, x |-> 0]
      [] v.t = "str" -> ParseFloat(v.s)
      [] v.t = "bigint" -> [ok |-> FALSE, x |-> 0]
      [] OTHER -> [ok |-> TRUE, x |-> Tenths(v)]

\* float(value) raises OverflowError
Overflows(v) == v.t = "bigint"

\* the error a call ends with instead of returning
Raised(type, message) == [raised |-> type, message |-> message]

IsRaised(r) == "raised" \in DOMAIN r

Abs(x) == IF x < 0 THEN -x ELSE x

(***************************************************************************)
(* datetime.strptime for the date formats of _parse_date.  A format is     *)
(* [sep, order]: three numeric directives separated by one character.      *)
(* %Y takes exactly four digits, %m and %d one or two; the date must exist.*)
(***************************************************************************)
RECURSIVE SplitOn(_, _)
SplitOn(s, sep) ==
    IF \A i \in 1..Len(s) : s[i] # sep THEN <<s>>
    ELSE LET k == CHOOSE i \in 1..Len(s) : s[i] = sep /\ \A j \in 1..(i - 1) : s[j] # sep
         IN  <<SubSeq(s, 1, k - 1)>> \o SplitOn(SubSeq(s, k + 1, Len(s)), sep)

IsLeap(y) == (y % 4 = 0 /\ y % 100 # 0) \/ y % 400 = 0

DaysInMonth(y, m) ==
    IF m = 2 THEN (IF IsLeap(y) THEN 29 ELSE 28)
    ELSE IF m \in {4, 6, 9, 11} THEN 30 ELSE 31

RECURSIVE DaysBeforeMonth(_, _)
DaysBeforeMonth(y, m) ==
    IF m = 1 THEN 0 ELSE DaysBeforeMonth(y, m - 1) + DaysInMonth(y, m - 1)

\* date.toordinal(): days since 0001-01-01, plus one
Ordinal(y, m, d) ==
    365 * (y - 1) + ((y - 1) \div 4) - ((y - 1) \div 100) + ((y - 1) \div 400)
    + DaysBeforeMonth(y, m) + d

DateFormats ==
    << [sep |-> "-", order |-> <<"Y", "m", "d">>],
       [sep |-> "/", order |-> <<"d", "m", "Y">>],
       [sep |-> "/", order |-> <<"m", "d", "Y">>],
       [sep |-> "/", order |-> <<"Y", "m", "d">>],
       [sep |-> "-", order |-> <<"d", "m", "Y">>],
       [sep |-> "-", order |-> <<"m", "d", "Y">> ] >>

strptime(s, fmt) ==
    LET parts == SplitOn(s, fmt.sep)
        bad == [ok |-> FALSE, ord |-> 0]
    IN  IF Len(parts) # 3 \/ \E i \in 1..3 : ~IsDigits(parts[i]) THEN bad
        ELSE LET part(dir) == parts[CHOOSE i \in 1..3 : fmt.order[i] = dir]
                 y == ToNat(part("Y"))
                 m == ToNat(part("m"))
                 d == ToNat(part("d"))
             IN  IF /\ Len(part("Y")) = 4 /\ y >= 1
                    /\ Len(part("m")) <= 2 /\ m \in 1..12
                    /\ Len(part("d")) <= 2 /\ d >= 1 /\ d <= DaysInMonth(y, m)
                 THEN [ok |-> TRUE, ord |-> Ordinal(y, m, d)]
                 ELSE bad

RECURSIVE ParseDateFrom(_, _)
ParseDateFrom(s, k) ==
    IF k > Len(DateFormats) THEN [ok |-> FALSE, ord |-> 0]
    ELSE LET r == strptime(s, DateFormats[k])
         IN  IF r.ok THEN r ELSE ParseDateFrom(s, k + 1)

_parse_date_month_first(value) ==
    IF strptime(str(value), DateFormats[3]).ok THEN strptime(str(value), DateFormats[3])
    ELSE ParseDateFrom(str(value), 1)

_parse_date(value) == ParseDateFrom(str(value), 1)

(***************************************************************************)
(* difflib.SequenceMatcher(None, a, b).ratio() as the pair <<2*M, T>>:     *)
(* M the size of the matching blocks, T = len(a) + len(b).                 *)
(***************************************************************************)
\* the longest block a[i..i+k-1] = b[j..j+k-1] inside a[alo..ahi], b[blo..bhi],
\* the earliest in a and then in b among the longest
FindLongestMatch(a, b, alo, ahi, blo, bhi) ==
    LET blocks == {<<i, j, k>> \in (alo..ahi) \X (blo..bhi) \X (1..(ahi - alo + 1)) :
                      /\ i + k - 1 <= ahi
                      /\ j + k - 1 <= bhi
                      /\ \A d \in 0..(k - 1) : a[i + d] = b[j + d]}
    IN  IF blocks = {} THEN <<alo, blo, 0>>
        ELSE CHOOSE x \in blocks : \A y \in blocks :
                 \/ x[3] > y[3]
                 \/ x[3] = y[3] /\ x[1] < y[1]
                 \/ x[3] = y[3] /\ x[1] = y[1] /\ x[2] <= y[2]

RECURSIVE MatchSize(_, _, _, _, _, _)
MatchSize(a, b, alo, ahi, blo, bhi) ==
    IF alo > ahi \/ blo > bhi THEN 0
    ELSE The({ IF x[3] = 0 THEN 0
                ELSE x[3] + MatchSize(a, b, alo, x[1] - 1, blo, x[2] - 1)
                          + MatchSize(a, b, x[1] + x[3], ahi, x[2] + x[3], bhi) :
                x \in {FindLongestMatch(a, b, alo, ahi, blo, bhi)} })

Ratio(a, b) == <<2 * MatchSize(a, b, 1, Len(a), 1, Len(b)), Len(a) + Len(b)>>

(***************************************************************************)
(* MatchingRule and the rule resolver.                                     *)
(***************************************************************************)
NoTol == [some |-> FALSE, x |-> 0]

Tol(x) == [some |-> TRUE, x |-> x]

NoUnit == "None"

NoRule == [id |-> "None"]

Rule(id, f, ty, tv, tu, mc, en) ==
    [id |-> id, field_name |-> f, rule_type |-> ty, tolerance_value |-> tv,
     tolerance_unit |-> tu, min_confidence |-> mc, enabled |-> en]

RECURSIVE GetRuleFrom(_, _, _)
GetRuleFrom(rs, field_name, k) ==
    IF k > Len(rs) THEN NoRule
    ELSE IF rs[k].field_name = field_name /\ rs[k].enabled THEN rs[k]
    ELSE GetRuleFrom(rs, field_name, k + 1)

get_rule_skip_enabled(rs, field_name) ==
    LET hits == {i \in 1..Len(rs) : rs[i].field_name = field_name}
    IN  IF hits = {} THEN NoRule ELSE rs[CHOOSE i \in hits : \A j \in hits : i <= j]

get_rule(rs, field_name) == GetRuleFrom(rs, field_name, 1)

(***************************************************************************)
(* Python float arithmetic (IEEE-754 binary64, round to nearest, ties to   *)
(* even) for the quotient and product of the percent tolerance.  A         *)
(* positive double is [e |-> exponent of its leading bit, m |-> its 53     *)
(* significant bits, most significant first]; zero has m = <<>>.  The      *)
(* numbers of the model are multiples of 0.5 below 2^31, which binary64    *)
(* holds exactly, so float() and the subtraction v1 - v2 are exact and     *)
(* only the division and the multiplication round.                         *)
(***************************************************************************)
RECURSIVE BitsOfNat(_)
BitsOfNat(n) == IF n = 0 THEN <<>> ELSE Append(BitsOfNat(n \div 2), n % 2)

RECURSIVE NatOfBits(_)
NatOfBits(bits) ==
    IF bits = <<>> THEN 0
    ELSE 2 * NatOfBits(SubSeq(bits, 1, Len(bits) - 1)) + bits[Len(bits)]

\* the w lowest bits of n
BitsFixed(n, w) == [i \in 1..w |-> (n \div 2^(w - i)) % 2]

\* long division of r by d (r < d < 2^22), nine bits at a time: the
\* remainder after i groups
RECURSIVE Remainder(_, _, _)
Remainder(r, d, i) == IF i = 0 THEN r ELSE (512 * Remainder(r, d, i - 1)) % d

\* the first 54 bits of r / d (r < d) and whether anything is left after them
FractionBits(r, d) ==
    The({ [bits |-> BitsFixed((512 * rem[1]) \div d, 9) \o BitsFixed((512 * rem[2]) \div d, 9)
                    \o BitsFixed((512 * rem[3]) \div d, 9) \o BitsFixed((512 * rem[4]) \div d, 9)
                    \o BitsFixed((512 * rem[5]) \div d, 9) \o BitsFixed((512 * rem[6]) \div d, 9),
           left |-> rem[7] # 0] :
          rem \in {[i \in 1..7 |-> Remainder(r, d, i - 1)]} })

\* n scaled by powers of two until it is at least d: <<scaled n, shifts>>
RECURSIVE ScaleUp(_, _, _)
ScaleUp(n, d, shifts) == IF n >= d THEN <<n, shifts>> ELSE ScaleUp(2 * n, d, shifts + 1)

\* bits plus one in the last place; all ones carry into one more bit
Increment(bits) ==
    LET zeros == { i \in 1..Len(bits) : bits[i] = 0 }
        last == CHOOSE i \in zeros : \A j \in zeros : j <= i
    IN  IF zeros = {} THEN <<1>> \o [i \in 1..Len(bits) |-> 0]
        ELSE [i \in 1..Len(bits) |-> IF i < last THEN bits[i] ELSE IF i = last THEN 1 ELSE 0]

\* the double nearest to the number whose leading bit has exponent e and
\* whose bits (at least 54, leading bit 1) are followed by a non-zero rest
\* iff sticky; a tie goes to the even mantissa
RoundToDouble(bits, sticky, e) ==
    LET m == SubSeq(bits, 1, 53)
        half == bits[54] = 1
        more == sticky \/ \E i \in 55..Len(bits) : bits[i] = 1
        up == half /\ (more \/ m[53] = 1)
        inc == Increment(m)
    IN  IF ~up THEN [e |-> e, m |-> m]
        ELSE IF Len(inc) = 53 THEN [e |-> e, m |-> inc]
        ELSE [e |-> e + 1, m |-> SubSeq(inc, 1, 53)]

\* float division n / d of two whole numbers, d positive and below 2^22
DoubleDiv(n, d) ==
    IF n = 0 THEN [e |-> 0, m |-> <<>>]
    ELSE The({ The({ RoundToDouble(The({whole \o frac.bits}), frac.left, Len(whole) - 1 - s[2]) :
                     whole \in {BitsOfNat(s[1] \div d)}, frac \in {FractionBits(s[1] % d, d)} }) :
               s \in {ScaleUp(n, d, 0)} })

\* the bits of bits * k for 53 bits and a whole number k <= 1000, in three
\* limbs of 13, 20 and 20 bits
TimesSmall(bits, k) ==
    LET lo == NatOfBits(SubSeq(bits, 34, 53)) * k
        mid == NatOfBits(SubSeq(bits, 14, 33)) * k + lo \div 2^20
        hi == NatOfBits(SubSeq(bits, 1, 13)) * k + mid \div 2^20
    IN  BitsOfNat(hi) \o BitsFixed(mid % 2^20, 20) \o BitsFixed(lo % 2^20, 20)

\* float multiplication x * k of a positive double by a whole number k,
\* 2 <= k <= 1000
DoubleTimes(x, k) ==
    The({ RoundToDouble(product, FALSE, x.e + Len(product) - 53) :
          product \in {TimesSmall(x.m, k)} })

\* x <= y for a positive double x and a double y that is positive or zero
DoubleLeq(x, y) ==
    /\ y.m # <<>>
    /\ \/ x.e < y.e
       \/ /\ x.e = y.e
          /\ \A i \in 1..53 : (\A j \in 1..(i - 1) : x.m[j] = y.m[j]) => x.m[i] <= y.m[i]

\* abs(v1 - v2) / abs(v2) * 100 <= tolerance, with diff and v2 in tenths
\* that are multiples of 0.5 (so in halves they are whole) and the tolerance
\* in tenths
PercentWithin(diff, v2, tolerance) ==
    The({ DoubleLeq(DoubleTimes(quotient, 100), DoubleDiv(tolerance, 10)) :
          quotient \in {DoubleDiv(diff \div 5, v2 \div 5)} })

(***************************************************************************)
(* The comparison strategies.                                              *)
(***************************************************************************)
_exact_match(val1, val2) ==
    IF val1.t = "str" /\ val2.t = "str"
    THEN (IF lower(strip(val1.s)) = lower(strip(val2.s)) THEN "MATCH" ELSE "MISMATCH")
    ELSE (IF PyEq(val1, val2) THEN "MATCH" ELSE "MISMATCH")

_tolerance_match_strict(val1, val2, tolerance, unit) ==
    IF ~float(val1).ok \/ ~float(val2).ok THEN "MISMATCH"
    ELSE IF unit = "percent"
    THEN IF float(val2).x = 0 THEN (IF float(val1).x = 0 THEN "MATCH" ELSE "MISMATCH")
         ELSE IF float(val1).x = float(val2).x THEN "MATCH"
         ELSE IF Abs(float(val1).x - float(val2).x) * 1000 < tolerance * Abs(float(val2).x)
         THEN "WITHIN_TOLERANCE" ELSE "MISMATCH"
    ELSE IF float(val1).x = float(val2).x THEN "MATCH"
    ELSE IF Abs(float(val1).x - float(val2).x) < tolerance THEN "WITHIN_TOLERANCE"
    ELSE "MISMATCH"

_tolerance_match_lenient(val1, val2, tolerance, unit) ==
    IF ~float(val1).ok \/ ~float(val2).ok THEN "MISMATCH"
    ELSE IF Abs(float(val1).x - float(val2).x) <= tolerance THEN "MATCH"
    ELSE "MISMATCH"

\* tolerance in tenths; v1, v2 in tenths.  The except clause catches TypeError
\* and ValueError; an OverflowError of float() leaves the method, which is
\* returned here as the status "OverflowError".
_tolerance_match(val1, val2, tolerance, unit) ==
    LET f1 == float(val1)
        f2 == float(val2)
    IN  IF Overflows(val1) \/ (f1.ok /\ Overflows(val2)) THEN "OverflowError"
        ELSE IF ~f1.ok \/ ~f2.ok THEN "MISMATCH"
        ELSE LET v1 == f1.x
                 v2 == f2.x
                 diff == Abs(v1 - v2)
             IN  IF unit = "percent"
                 THEN IF v2 = 0 THEN (IF v1 = 0 THEN "MATCH" ELSE "MISMATCH")
                      ELSE IF diff = 0 THEN "MATCH"
                      ELSE IF PercentWithin(diff, Abs(v2), tolerance) THEN "WITHIN_TOLERANCE"
                      ELSE "MISMATCH"
                 ELSE IF diff = 0 THEN "MATCH"
                      ELSE IF diff <= tolerance THEN "WITHIN_TOLERANCE"
                      ELSE "MISMATCH"

_fuzzy_match_above(val1, val2, threshold) ==
    LET s1 == strip(lower(str(val1)))
        s2 == strip(lower(str(val2)))
    IN  IF s1 = s2 THEN "MATCH"
        ELSE The({ IF r[1] * 100 >= 95 * r[2] THEN "MATCH"
                   ELSE IF r[1] * 100 > threshold * r[2] THEN "WITHIN_TOLERANCE"
                   ELSE "MISMATCH" : r \in {Ratio(s1, s2)} })

\* threshold in hundredths (0.8 is 80)
_fuzzy_match(val1, val2, threshold) ==
    LET s1 == strip(lower(str(val1)))
        s2 == strip(lower(str(val2)))
    IN  IF s1 = s2 THEN "MATCH"
        ELSE The({ IF r[1] * 100 >= 95 * r[2] THEN "MATCH"
                   ELSE IF r[1] * 100 >= threshold * r[2] THEN "WITHIN_TOLERANCE"
                   ELSE "MISMATCH" : r \in {Ratio(s1, s2)} })

_date_tolerance_match_signed(val1, val2, tolerance_days) ==
    IF ~_parse_date(val1).ok \/ ~_parse_date(val2).ok THEN "MISMATCH"
    ELSE IF _parse_date(val1).ord - _parse_date(val2).ord = 0 THEN "MATCH"
    ELSE IF _parse_date(val1).ord - _parse_date(val2).ord <= tolerance_days
    THEN "WITHIN_TOLERANCE" ELSE "MISMATCH"

_date_tolerance_match(val1, val2, tolerance_days) ==
    LET d1 == _parse_date(val1)
        d2 == _parse_date(val2)
    IN  IF ~d1.ok \/ ~d2.ok THEN "MISMATCH"
        ELSE LET diff_days == Abs(d1.ord - d2.ord)
             IN  IF diff_days = 0 THEN "MATCH"
                 ELSE IF diff_days <= tolerance_days THEN "WITHIN_TOLERANCE"
                 ELSE "MISMATCH"

(***************************************************************************)
(* compare_values: the field comparator.                                   *)
(***************************************************************************)
FieldComparison(f, ev, sv, st, c, mc, ra) ==
    [field_name |-> f, extracted_value |-> ev, system_value |-> sv,
     match_status |-> st, confidence |-> c, min_required_confidence |-> mc,
     rule_applied |-> ra]

\* rule.tolerance_value or 0
TolOrZero(rule) ==
    IF rule.tolerance_value.some /\ rule.tolerance_value.x # 0
    THEN rule.tolerance_value.x ELSE 0

\* int(x) of a float in tenths: truncation toward zero
IntOf(x) == IF x < 0 THEN -((-x) \div 10) ELSE x \div 10

\* f"{rule.rule_type}_{rule.tolerance_value or ''}{rule.tolerance_unit or ''}"
RuleDescriptor(rule) ==
    rule.rule_type \o "_"
    \o (IF rule.tolerance_value.some /\ rule.tolerance_value.x # 0
        THEN FloatRepr(rule.tolerance_value.x) ELSE "")
    \o (IF rule.tolerance_unit = NoUnit THEN "" ELSE rule.tolerance_unit)

Dispatch(rule, extracted_value, system_value) ==
    CASE rule.rule_type = "exact" -> _exact_match(extracted_value, system_value)
      [] rule.rule_type = "tolerance" ->
            _tolerance_match(extracted_value, system_value, TolOrZero(rule),
                IF rule.tolerance_unit = NoUnit THEN "absolute" ELSE rule.tolerance_unit)
      [] rule.rule_type = "fuzzy" -> _fuzzy_match(extracted_value, system_value, 80)
      [] rule.rule_type = "date_tolerance" ->
            _date_tolerance_match(extracted_value, system_value, IntOf(TolOrZero(rule)))
      [] OTHER -> IF PyEq(extracted_value, system_value) THEN "MATCH" ELSE "MISMATCH"

compare_values_gate_last(rs, field_name, extracted_value, system_value, confidence) ==
    LET rule == get_rule(rs, field_name)
        min_confidence == IF rule # NoRule THEN rule.min_confidence ELSE 0
        st == IF rule = NoRule
              THEN (IF lower(strip(str(extracted_value))) = lower(strip(str(system_value)))
                    THEN "MATCH" ELSE "MISMATCH")
              ELSE Dispatch(rule, extracted_value, system_value)
    IN  IF st = "MISMATCH" /\ confidence < min_confidence
        THEN FieldComparison(field_name, extracted_value, system_value, "LOW_CONFIDENCE",
                 confidence, min_confidence, "min_confidence_" \o FloatRepr(min_confidence))
        ELSE FieldComparison(field_name, extracted_value, system_value, st,
                 confidence, min_confidence,
                 IF rule = NoRule THEN "default_exact" ELSE RuleDescriptor(rule))

compare_values_case_sensitive(rs, field_name, extracted_value, system_value, confidence) ==
    LET rule == get_rule(rs, field_name)
        min_confidence == IF rule # NoRule THEN rule.min_confidence ELSE 0
    IN  IF confidence < min_confidence
        THEN FieldComparison(field_name, extracted_value, system_value, "LOW_CONFIDENCE",
                 confidence, min_confidence, "min_confidence_" \o FloatRepr(min_confidence))
        ELSE IF rule = NoRule
        THEN FieldComparison(field_name, extracted_value, system_value,
                 IF strip(str(extracted_value)) = strip(str(system_value))
                 THEN "MATCH" ELSE "MISMATCH",
                 confidence, min_confidence, "default_exact")
        ELSE FieldComparison(field_name, extracted_value, system_value,
                 Dispatch(rule, extracted_value, system_value),
                 confidence, min_confidence, RuleDescriptor(rule))

compare_values(rs, field_name, extracted_value, system_value, confidence) ==
    LET rule == get_rule(rs, field_name)
        min_confidence == IF rule # NoRule THEN rule.min_confidence ELSE 0
    IN  IF confidence < min_confidence
        THEN FieldComparison(field_name, extracted_value, system_value, "LOW_CONFIDENCE",
                 confidence, min_confidence, "min_confidence_" \o FloatRepr(min_confidence))
        ELSE IF rule = NoRule
        THEN FieldComparison(field_name, extracted_value, system_value,
                 IF lower(strip(str(extracted_value))) = lower(strip(str(system_value)))
                 THEN "MATCH" ELSE "MISMATCH",
                 confidence, min_confidence, "default_exact")
        ELSE The({ IF match_status = "OverflowError"
                   THEN Raised("OverflowError", "int too large to convert to float")
                   ELSE FieldComparison(field_name, extracted_value, system_value,
                            match_status, confidence, min_confidence, RuleDescriptor(rule)) :
                   match_status \in {Dispatch(rule, extracted_value, system_value)} })

(***************************************************************************)
(* _determine_overall_status: the status aggregator.                       *)
(***************************************************************************)
Count(comparisons, st) ==
    Cardinality({i \in 1..Len(comparisons) : comparisons[i].match_status = st})

_determine_overall_status_tie_partial(comparisons) ==
    LET match_count == Count(comparisons, "MATCH")
        tolerance_count == Count(comparisons, "WITHIN_TOLERANCE")
        low_conf_count == Count(comparisons, "LOW_CONFIDENCE")
        mismatch_count == Count(comparisons, "MISMATCH")
    IN  IF Len(comparisons) = 0 THEN "PENDING"
        ELSE IF mismatch_count = 0 /\ tolerance_count = 0 /\ low_conf_count = 0 THEN "MATCH"
        ELSE IF mismatch_count = 0 /\ (tolerance_count > 0 \/ low_conf_count > 0) THEN "PARTIAL"
        ELSE IF match_count + tolerance_count >= mismatch_count THEN "PARTIAL"
        ELSE "MISMATCH"

_determine_overall_status(comparisons) ==
    LET match_count == Count(comparisons, "MATCH")
        tolerance_count == Count(comparisons, "WITHIN_TOLERANCE")
        low_conf_count == Count(comparisons, "LOW_CONFIDENCE")
        mismatch_count == Count(comparisons, "MISMATCH")
    IN  IF Len(comparisons) = 0 THEN "PENDING"
        ELSE IF mismatch_count = 0 /\ tolerance_count = 0 /\ low_conf_count = 0 THEN "MATCH"
        ELSE IF mismatch_count = 0 /\ (tolerance_count > 0 \/ low_conf_count > 0) THEN "PARTIAL"
        ELSE IF match_count + tolerance_count > mismatch_count THEN "PARTIAL"
        ELSE "MISMATCH"

(***************************************************************************)
(* compare_trs_trade, build_unmatched_result, find_best_match.             *)
(* An ExtractedTrade is its field map: a function from the field names it  *)
(* holds to [value, confidence].  A TRSTrade is a function from the        *)
(* attribute names to Python values.  The fresh uuid of a ValidationResult *)
(* is left out.                                                            *)
(***************************************************************************)
trs_fields ==
    << "trade_id", "party_a", "party_b", "trade_date", "effective_date",
       "scheduled_termination_date", "bond_return_payer", "bond_return_receiver",
       "local_currency", "notional_amount", "usd_notional_amount",
       "initial_spot_rate", "current_market_price", "underlier", "isin" >>

NoFloat == [some |-> FALSE, x |-> 0]

\* round(sum / n, 4) of confidences in tenths, in ten-thousandths
RoundedMean(sum, n) == [some |-> TRUE, x |-> (2 * 1000 * sum + n) \div (2 * n)]

RECURSIVE SumConfidence(_)
SumConfidence(comparisons) ==
    IF Len(comparisons) = 0 THEN 0
    ELSE comparisons[1].confidence + SumConfidence(Tail(comparisons))

_average_comparison_confidence(comparisons) ==
    IF Len(comparisons) = 0 THEN NoFloat
    ELSE RoundedMean(SumConfidence(comparisons), Len(comparisons))

RECURSIVE SumOver(_, _)
SumOver(fields, names) ==
    IF names = {} THEN 0
    ELSE LET f == CHOOSE x \in names : TRUE
         IN  fields[f].confidence + SumOver(fields, names \ {f})

_average_extracted_confidence(extracted) ==
    IF DOMAIN extracted = {} THEN NoFloat
    ELSE RoundedMean(SumOver(extracted, DOMAIN extracted), Cardinality(DOMAIN extracted))

_extract_field_value(extracted, field_name, as_type) ==
    IF field_name \notin DOMAIN extracted THEN PyNone
    ELSE LET value == extracted[field_name].value
         IN  IF PyEq(value, PyNone) \/ PyEq(value, PyStr(<<>>)) THEN PyNone
             ELSE IF as_type = "str" THEN PyStr(str(value))
             ELSE IF Overflows(value)
             THEN Raised("OverflowError", "int too large to convert to float")
             ELSE IF float(value).ok THEN PyFloat(float(value).x)
             ELSE PyNone

ValidationResult(document_id, system_trade_id, status, field_comparisons, display, mc) ==
    [document_id |-> document_id, system_trade_id |-> system_trade_id,
     status |-> status, field_comparisons |-> field_comparisons,
     party_a |-> display[1], party_b |-> display[2], trade_date |-> display[3],
     effective_date |-> display[4], scheduled_termination_date |-> display[5],
     local_currency |-> display[6], notional_amount |-> display[7],
     machine_confidence |-> mc]

RECURSIVE FieldComparisonsFrom_keep_null(_, _, _, _)
FieldComparisonsFrom_keep_null(rs, extracted, system_trade, k) ==
    IF k > Len(trs_fields) THEN <<>>
    ELSE LET field_name == trs_fields[k]
             rest == FieldComparisonsFrom_keep_null(rs, extracted, system_trade, k + 1)
         IN  IF field_name \notin DOMAIN extracted THEN rest
             ELSE <<compare_values(rs, field_name, extracted[field_name].value,
                        system_trade[field_name], extracted[field_name].confidence)>>
                  \o rest

RECURSIVE FieldComparisonsFrom(_, _, _, _)
FieldComparisonsFrom(rs, extracted, system_trade, k) ==
    IF k > Len(trs_fields) THEN <<>>
    ELSE LET field_name == trs_fields[k]
             rest == FieldComparisonsFrom(rs, extracted, system_trade, k + 1)
         IN  IF field_name \notin DOMAIN extracted THEN rest
             ELSE IF system_trade[field_name] = PyNone THEN rest
             ELSE <<compare_values(rs, field_name, extracted[field_name].value,
                        system_trade[field_name], extracted[field_name].confidence)>>
                  \o rest

\* a compare_values call that raises ends compare_trs_trade with its error
compare_trs_trade(rs, extracted, system_trade, document_id) ==
    The({ IF \E i \in 1..Len(field_comparisons) : IsRaised(field_comparisons[i])
          THEN field_comparisons[CHOOSE i \in 1..Len(field_comparisons) :
                   /\ IsRaised(field_comparisons[i])
                   /\ \A j \in 1..(i - 1) : ~IsRaised(field_comparisons[j])]
          ELSE ValidationResult(document_id, system_trade["trade_id"].s,
              _determine_overall_status(field_comparisons), field_comparisons,
              << system_trade["party_a"], system_trade["party_b"],
                 system_trade["trade_date"], system_trade["effective_date"],
                 system_trade["scheduled_termination_date"],
                 system_trade["local_currency"], system_trade["notional_amount"] >>,
              _average_comparison_confidence(field_comparisons)) :
          field_comparisons \in {FieldComparisonsFrom(rs, extracted, system_trade, 1)} })

NOT_FOUND == <<"N", "O", "T", "_", "F", "O", "U", "N", "D">>

build_unmatched_result_pending(extracted, document_id) ==
    ValidationResult(document_id, NOT_FOUND, "PENDING", <<>>,
        << PyNone, PyNone, PyNone, PyNone, PyNone, PyNone, PyNone >>,
        _average_extracted_confidence(extracted))

build_unmatched_result(extracted, document_id) ==
    The({ IF IsRaised(notional_amount) THEN notional_amount
          ELSE ValidationResult(document_id, NOT_FOUND, "MISMATCH", <<>>,
                   << _extract_field_value(extracted, "party_a", "str"),
                      _extract_field_value(extracted, "party_b", "str"),
                      _extract_field_value(extracted, "trade_date", "str"),
                      _extract_field_value(extracted, "effective_date", "str"),
                      _extract_field_value(extracted, "scheduled_termination_date", "str"),
                      _extract_field_value(extracted, "local_currency", "str"),
                      notional_amount >>,
                   _average_extracted_confidence(extracted)) :
          notional_amount \in {_extract_field_value(extracted, "notional_amount", "float")} })

NoResult == [none |-> TRUE]

\* the unmatched snapshot validate_document stores when no result came back
not_found_snapshot(document_id) ==
    [document_id |-> document_id, system_trade_id |-> NOT_FOUND, status |-> "MISMATCH",
     field_comparisons |-> <<>>]

\* the weight of one field comparison, in twentieths
Weight(c) ==
    CASE c.match_status = "MATCH" -> 20
      [] c.match_status = "WITHIN_TOLERANCE" -> 12
      [] c.match_status = "LOW_CONFIDENCE" -> 5
      [] OTHER -> 0

RECURSIVE Score(_)
Score(comparisons) ==
    IF Len(comparisons) = 0 THEN 0
    ELSE Weight(comparisons[1]) + Score(Tail(comparisons))

Keep_most_fields(best, result) ==
    IF 20 * Len(result.field_comparisons) > best.score
    THEN [score |-> 20 * Len(result.field_comparisons), result |-> result]
    ELSE best

Keep_last_tie(best, result) ==
    IF Score(result.field_comparisons) >= best.score
    THEN [score |-> Score(result.field_comparisons), result |-> result]
    ELSE best

\* one turn of the scoring loop: the best so far after this result
Keep(best, result) ==
    IF Score(result.field_comparisons) > best.score
    THEN [score |-> Score(result.field_comparisons), result |-> result]
    ELSE best

\* the scoring loop from candidate k on, with the best so far
RECURSIVE BestFrom(_, _, _, _, _, _)
BestFrom(rs, extracted, trs_trades, document_id, k, best) ==
    IF k > Len(trs_trades) THEN best.result
    ELSE The({ IF IsRaised(result) THEN result
               ELSE The({ BestFrom(rs, extracted, trs_trades, document_id, k + 1, kept) :
                          kept \in {Keep(best, result)} }) :
               result \in {compare_trs_trade(rs, extracted, trs_trades[k], document_id)} })

\* the identifier scan from candidate k on: the index of the first hit, 0 when none
RECURSIVE IdentifierScan(_, _, _)
IdentifierScan(want, trs_trades, k) ==
    IF k > Len(trs_trades) THEN 0
    ELSE IF lower(trs_trades[k]["trade_id"].s) = want THEN k
    ELSE IdentifierScan(want, trs_trades, k + 1)

IdentifierHit_no_strip(extracted, trs_trades) ==
    IF "trade_id" \in DOMAIN extracted /\ Truthy(extracted["trade_id"].value)
    THEN IdentifierScan(lower(str(extracted["trade_id"].value)), trs_trades, 1)
    ELSE 0

IdentifierHit(extracted, trs_trades) ==
    IF "trade_id" \in DOMAIN extracted /\ Truthy(extracted["trade_id"].value)
    THEN IdentifierScan(lower(strip(str(extracted["trade_id"].value))), trs_trades, 1)
    ELSE 0

find_best_match_keep_empty(rs, extracted, trs_trades, document_id) ==
    IF Len(trs_trades) = 0 THEN NoResult
    ELSE LET hit == IdentifierHit(extracted, trs_trades)
         IN  IF hit # 0 THEN compare_trs_trade(rs, extracted, trs_trades[hit], document_id)
             ELSE BestFrom(rs, extracted, trs_trades, document_id, 1,
                      [score |-> -20, result |-> NoResult])

find_best_match(rs, extracted, trs_trades, document_id) ==
    IF Len(trs_trades) = 0 THEN NoResult
    ELSE LET hit == IdentifierHit(extracted, trs_trades)
         IN  IF hit # 0 THEN compare_trs_trade(rs, extracted, trs_trades[hit], document_id)
             ELSE The({ IF IsRaised(best_result) THEN best_result
                        ELSE IF best_result # NoResult /\ Len(best_result.field_comparisons) = 0
                        THEN NoResult
                        ELSE best_result :
                        best_result \in {BestFrom(rs, extracted, trs_trades, document_id, 1,
                                             [score |-> -20, result |-> NoResult])} })

(***************************************************************************)
(* The inputs the operations are applied to.                               *)
(***************************************************************************)
Field(v, c) == [value |-> v, confidence |-> c]

ABC_1 == <<"A", "B", "C", "-", "1">>

abc_1 == <<"a", "b", "c", "-", "1">>

TradeIds == { abc_1, <<"a", "b", "c", "-", "1", " ">>, <<"X", "Y", "Z", "-", "9">> }

\* <<notional_amount, isin>> of the candidate records
TradeAttributes ==
    { <<PyFloat(10000005), PyNone>>, <<PyFloat(10000020), PyStr(<<"U", "S", "2">>)>> }

Trade(id, notional, isin) ==
    [f \in {trs_fields[i] : i \in 1..Len(trs_fields)} |->
        CASE f = "trade_id" -> PyStr(id)
          [] f = "notional_amount" -> notional
          [] f = "isin" -> isin
          [] f = "underlier" -> PyNone
          [] f \in {"party_a", "party_b", "local_currency"} -> PyStr(<<"A">>)
          [] f \in {"bond_return_payer", "bond_return_receiver"} ->
                PyStr(<<"P", "a", "r", "t", "y", "A">>)
          [] f \in {"trade_date", "effective_date", "scheduled_termination_date"} ->
                PyStr(<<"2", "0", "2", "4", "-", "0", "1", "-", "0", "5">>)
          [] OTHER -> PyFloat(10)]

Trades == { Trade(id, a[1], a[2]) : id \in TradeIds, a \in TradeAttributes }

RECURSIVE SeqsUpTo(_, _)
SeqsUpTo(S, n) ==
    IF n = 0 THEN { <<>> }
    ELSE LET shorter == SeqsUpTo(S, n - 1)
         IN  shorter \cup { Append(q, x) : q \in {r \in shorter : Len(r) = n - 1}, x \in S }

CandidateLists == SeqsUpTo(Trades, MaxCands)

Absent == [absent |-> TRUE]

IdOptions == { Absent, Field(PyStr(ABC_1), 9), Field(PyStr(<<" ", "A", "B", "C", "-", "1">>), 9),
               Field(PyNone, 0) }

NotionalOptions == { Absent, Field(PyInt(1000000), 9), Field(PyInt(1000000), 5) }

IsinOptions == { Absent, Field(PyStr(<<"U", "S", "2">>), 9), Field(PyStr(<<"U", "S", "1">>), 9) }

Extracted(id, notional, isin) ==
    LET opt == [f \in {"trade_id", "notional_amount", "isin"} |->
                   CASE f = "trade_id" -> id
                     [] f = "notional_amount" -> notional
                     [] OTHER -> isin]
    IN  [f \in {g \in DOMAIN opt : opt[g] # Absent} |-> opt[f]]

ExtractedSets ==
    { Extracted(id, n, i) : id \in IdOptions, n \in NotionalOptions, i \in IsinOptions }

\* the extracted sets find_best_match is applied to
Searches == { e \in ExtractedSets : "trade_id" \in DOMAIN e => e["trade_id"].value # PyStr(ABC_1) }

NotionalRule == Rule("r1", "notional_amount", "tolerance", Tol(10), "absolute", 7, TRUE)

ScenarioRuleSets ==
    { <<>>,
      <<NotionalRule>>,
      << Rule("r0", "notional_amount", "exact", NoTol, NoUnit, 0, FALSE), NotionalRule,
         Rule("r2", "isin", "fuzzy", NoTol, NoUnit, 0, TRUE) >> }

StatusLists ==
    SeqsUpTo({ [match_status |-> st] :
                 st \in {"MATCH", "MISMATCH", "WITHIN_TOLERANCE", "LOW_CONFIDENCE"} }, MaxCmp)

DocumentId == "doc-1"

(***************************************************************************)
(* The engine as a state machine: rules is the engine's rule list; op is   *)
(* the operation whose result ret is held ("idle" when none), call its     *)
(* arguments.                                                              *)
(***************************************************************************)
VARIABLES rules, op, call, ret, store, requests, loop

vars == <<rules, op, call, ret, store, requests, loop>>

NoCall == [none |-> TRUE]

MaxRequests == 2

Requests == 1..MaxRequests

\* the stored document of the tracked id; no document before it is created
NoDocument ==
    [exists |-> FALSE, status |-> "NONE", extracted_data |-> Absent,
     validation_result |-> NoResult]

\* a request slot: the handler it runs, where the handler is, its local
\* variables (doc, rules, validation_result), and the response it gave
NoRequest ==
    [kind |-> "none", pc |-> "idle", doc |-> NoDocument, rules |-> <<>>,
     used_rules |-> <<>>, validation_result |-> NoResult, raised |-> FALSE,
     response |-> 0]

Init ==
    /\ rules = <<>>
    /\ op = "idle"
    /\ call = NoCall
    /\ ret = NoResult
    /\ store = [document |-> NoDocument, matching_rules |-> <<>>]
    /\ requests = [r \in Requests |-> NoRequest]
    /\ loop = 0

\* set_rules: the engine's rule list is replaced wholesale
SetRules(RuleSets) ==
    /\ op = "idle"
    /\ \E rs \in RuleSets : rules' = rs
    /\ UNCHANGED <<op, call, ret, store, requests, loop>>

CompareValues(Calls) ==
    /\ op = "idle"
    /\ \E c \in Calls :
          /\ call' = c
          /\ ret' = compare_values(rules, c.field_name, c.extracted_value,
                        c.system_value, c.confidence)
    /\ op' = "compare_values"
    /\ UNCHANGED <<rules, store, requests, loop>>

DetermineOverallStatus(Lists) ==
    /\ op = "idle"
    /\ \E comparisons \in Lists :
          /\ call' = [comparisons |-> comparisons]
          /\ ret' = [status |-> _determine_overall_status(comparisons)]
    /\ op' = "_determine_overall_status"
    /\ UNCHANGED <<rules, store, requests, loop>>

CompareTrsTrade(Es, Ts) ==
    /\ op = "idle"
    /\ \E extracted \in Es, system_trade \in Ts :
          /\ call' = [extracted |-> extracted, system_trade |-> system_trade]
          /\ ret' = compare_trs_trade(rules, extracted, system_trade, DocumentId)
    /\ op' = "compare_trs_trade"
    /\ UNCHANGED <<rules, store, requests, loop>>

FindBestMatch(Es, Lists) ==
    /\ op = "idle"
    /\ \E extracted \in Es, trs_trades \in Lists :
          /\ call' = [extracted |-> extracted, trs_trades |-> trs_trades]
          /\ ret' = find_best_match(rules, extracted, trs_trades, DocumentId)
    /\ op' = "find_best_match"
    /\ UNCHANGED <<rules, store, requests, loop>>

\* the caller's fallback when find_best_match returned None
BuildUnmatchedResult ==
    /\ op = "find_best_match"
    /\ ret = NoResult
    /\ op' = "build_unmatched_result"
    /\ ret' = build_unmatched_result(call.extracted, DocumentId)
    /\ UNCHANGED <<rules, call, store, requests, loop>>

\* validate_document's branch for no result: the snapshot it stores
NotFoundSnapshot ==
    /\ op = "find_best_match"
    /\ ret = NoResult
    /\ op' = "not_found_snapshot"
    /\ ret' = not_found_snapshot(DocumentId)
    /\ UNCHANGED <<rules, call, store, requests, loop>>

\* the caller is done with the result
Return ==
    /\ op # "idle"
    /\ op' = "idle"
    /\ call' = NoCall
    /\ ret' = NoResult
    /\ UNCHANGED <<rules, store, requests, loop>>

Call(f, ev, sv, c) ==
    [field_name |-> f, extracted_value |-> ev, system_value |-> sv, confidence |-> c]

ScenarioValues ==
    { PyStr(ABC_1), PyStr(abc_1), PyInt(1000000), PyFloat(10000005), PyNone }

ScenarioCalls ==
    { Call(f, ev, sv, c) : f \in {"trade_id", "notional_amount"}, ev \in ScenarioValues,
                           sv \in ScenarioValues \ {PyNone}, c \in {5, 9} }

Next ==
    \/ SetRules(ScenarioRuleSets)
    \/ CompareValues(ScenarioCalls)
    \/ DetermineOverallStatus(StatusLists)
    \/ CompareTrsTrade(ExtractedSets, Trades)
    \/ FindBestMatch(Searches, CandidateLists)
    \/ BuildUnmatchedResult
    \/ NotFoundSnapshot
    \/ Return

Spec == Init /\ [][Next]_vars


(***************************************************************************)
(* compare_values under every list of at most MaxRules rules of a pool,    *)
(* one specification for each family of strategies.                        *)
(***************************************************************************)
CmpRulePool ==
    { Rule("a", "notional_amount", "exact", NoTol, NoUnit, 7, TRUE),
      Rule("b", "notional_amount", "tolerance", Tol(10), "absolute", 7, TRUE),
      Rule("c", "notional_amount", "fuzzy", NoTol, NoUnit, 7, TRUE),
      Rule("d", "notional_amount", "date_tolerance", Tol(10), "days", 7, TRUE),
      Rule("e", "notional_amount", "tolerance", NoTol, NoUnit, 0, TRUE),
      Rule("f", "notional_amount", "exact", NoTol, NoUnit, 9, FALSE),
      Rule("g", "trade_date", "date_tolerance", NoTol, "days", 0, TRUE),
      Rule("h", "trade_date", "exact", NoTol, NoUnit, 7, FALSE) }

Date_2024_01_05 == <<"2", "0", "2", "4", "-", "0", "1", "-", "0", "5">>

CmpValues ==
    { PyInt(1000000), PyFloat(10000005), PyStr(Date_2024_01_05),
      PyStr(<<"0", "6", "/", "0", "1", "/", "2", "0", "2", "4">>), PyNone }

CmpCalls ==
    { Call(f, ev, sv, c) : f \in {"notional_amount", "trade_date"}, ev \in CmpValues,
                           sv \in CmpValues \ {PyNone}, c \in {5, 7, 9} }

NextCmp ==
    \/ SetRules(SeqsUpTo(CmpRulePool, MaxRules))
    \/ CompareValues(CmpCalls)
    \/ Return

SpecCmp == Init /\ [][NextCmp]_vars

TolRulePool ==
    { Rule("a", "notional_amount", "tolerance", Tol(10), "absolute", 7, TRUE),
      Rule("b", "notional_amount", "tolerance", Tol(5), "absolute", 0, TRUE),
      Rule("c", "notional_amount", "tolerance", NoTol, "absolute", 0, TRUE),
      Rule("d", "notional_amount", "tolerance", Tol(0), "absolute", 0, TRUE),
      Rule("e", "notional_amount", "tolerance", Tol(20), "absolute", 0, FALSE) }

TolValues ==
    { PyInt(1000000), PyInt(1000001), PyFloat(10000000), PyFloat(10000005),
      PyFloat(10000020), PyStr(<<"1", "0", "0", "0", "0", "0", "0">>), PyNone }

TolCalls ==
    { Call("notional_amount", ev, sv, c) : ev \in TolValues, sv \in TolValues \ {PyNone},
                                          c \in {5, 9} }

NextTol ==
    \/ SetRules(SeqsUpTo(TolRulePool, MaxRules))
    \/ CompareValues(TolCalls)
    \/ Return

SpecTol == Init /\ [][NextTol]_vars

DateRulePool ==
    { Rule("a", "trade_date", "date_tolerance", Tol(10), "days", 0, TRUE),
      Rule("b", "trade_date", "date_tolerance", NoTol, NoUnit, 0, TRUE),
      Rule("c", "trade_date", "date_tolerance", Tol(25), "days", 7, TRUE),
      Rule("d", "trade_date", "exact", NoTol, NoUnit, 0, FALSE) }

DateValues ==
    { PyStr(Date_2024_01_05),
      PyStr(<<"0", "5", "/", "0", "1", "/", "2", "0", "2", "4">>),
      PyStr(<<"0", "1", "/", "1", "3", "/", "2", "0", "2", "4">>),
      PyStr(<<"2", "0", "2", "4", "/", "0", "1", "/", "0", "6">>),
      PyStr(<<"0", "7", "-", "0", "1", "-", "2", "0", "2", "4">>),
      PyStr(<<"2", "0", "2", "4", "-", "0", "2", "-", "3", "0">>),
      PyStr(<<"2", "0", "2", "3", "-", "1", "2", "-", "3", "1">>),
      PyInt(20240105), PyNone }

DateCalls ==
    { Call("trade_date", ev, sv, c) : ev \in DateValues, sv \in DateValues, c \in {5, 9} }

NextDate ==
    \/ SetRules(SeqsUpTo(DateRulePool, MaxRules))
    \/ CompareValues(DateCalls)
    \/ Return

SpecDate == Init /\ [][NextDate]_vars


(***************************************************************************)
(* compare_trs_trade over extracted sets whose entries cover schema fields *)
(* the record has, schema fields it lacks (underlier, isin) and a name     *)
(* outside the schema list.                                                *)
(***************************************************************************)
ExtractedOf(opt) == [f \in {g \in DOMAIN opt : opt[g] # Absent} |-> opt[f]]

OverlapSets ==
    { ExtractedOf([f \in {"trade_id", "trade_date", "underlier", "isin", "counterparty"} |->
          CASE f = "trade_id" -> id
            [] f = "trade_date" -> d
            [] f = "underlier" -> u
            [] f = "isin" -> i
            [] OTHER -> cp]) :
        id \in {Absent, Field(PyStr(ABC_1), 9)},
        d \in {Absent, Field(PyStr(Date_2024_01_05), 9)},
        u \in {Absent, Field(PyStr(<<"B", "O", "N", "D">>), 9)},
        i \in {Absent, Field(PyStr(<<"U", "S", "2">>), 9), Field(PyNone, 9)},
        cp \in {Absent, Field(PyStr(<<"A">>), 9)} }

NextTrade ==
    \/ SetRules(ScenarioRuleSets)
    \/ CompareTrsTrade(OverlapSets, Trades)
    \/ Return

SpecTrade == Init /\ [][NextTrade]_vars

EdgeRulePool ==
    { Rule("a", "notional_amount", "tolerance", Tol(10), "absolute", 0, TRUE),
      Rule("b", "notional_amount", "tolerance", Tol(70), "percent", 7, TRUE),
      Rule("c", "trade_date", "date_tolerance", Tol(10), "days", 0, TRUE),
      Rule("d", "party_a", "fuzzy", NoTol, NoUnit, 0, TRUE) }

EdgeAmounts ==
    { PyInt(100), PyFloat(1005), PyStr(<<"1", "0", "0">>), PyStr(<<"a", "b", "c">>), PyStr(<<>>), PyNone,
      PyBigInt(309) }

EdgeDates ==
    { PyStr(Date_2024_01_05), PyStr(<<"2", "0", "2", "4", "-", "0", "2", "-", "3", "0">>), PyStr(<<"0", "5", ".", "0", "1", ".", "2", "0", "2", "4">>),
      PyInt(20240105), PyNone, PyBigInt(309) }

EdgeNames == { PyStr(<<"a", "b", "c", "d", "e">>), PyStr(<<"a", "b", "c", "d", "x">>), PyStr(<<>>), PyInt(100), PyNone }

EdgeCalls ==
    { Call("notional_amount", ev, sv, c) : ev \in EdgeAmounts, sv \in EdgeAmounts, c \in {5, 9} }
    \cup { Call("trade_date", ev, sv, 9) : ev \in EdgeDates, sv \in EdgeDates }
    \cup { Call("party_a", ev, sv, 9) : ev \in EdgeNames, sv \in EdgeNames }

NextEdge ==
    \/ SetRules(SeqsUpTo(EdgeRulePool, MaxRules))
    \/ CompareValues(EdgeCalls)
    \/ Return

SpecEdge == Init /\ [][NextEdge]_vars

DefaultRulePool ==
    { Rule("a", "party_a", "fuzzy", NoTol, NoUnit, 7, FALSE),
      Rule("b", "party_b", "exact", NoTol, NoUnit, 9, TRUE),
      Rule("c", "party_a", "tolerance", Tol(10), "absolute", 0, TRUE),
      Rule("d", "party_a", "date_tolerance", Tol(10), "days", 9, FALSE) }

DefaultValues ==
    { PyStr(<<"A", "c", "m", "e", " ", "B", "a", "n", "k">>), PyStr(<<" ", "A", "C", "M", "E", " ", "b", "a", "n", "k", " ">>), PyStr(<<"A", "c", "m", "e", " ", " ", "B", "a", "n", "k">>), PyStr(<<"A", "c", "m", "e", " ", "B", "a", "n", "c">>),
      PyStr(<<"n", "o", "n", "e">>), PyStr(<<"1", "0", "0", "0", "0", "0", "0">>), PyStr(<<>>), PyStr(<<" ">>),
      PyInt(1000000), PyFloat(10000000), PyFloat(10000005), PyNone }

DefaultCalls ==
    { Call("party_a", ev, sv, c) : ev \in DefaultValues, sv \in DefaultValues,
                                   c \in {-1, 0, 9} }

NextDefault ==
    \/ SetRules(SeqsUpTo(DefaultRulePool, MaxRules))
    \/ CompareValues(DefaultCalls)
    \/ Return

SpecDefault == Init /\ [][NextDefault]_vars

PctRulePool ==
    { Rule("a", "notional_amount", "tolerance", Tol(70), "percent", 0, TRUE),
      Rule("b", "notional_amount", "tolerance", Tol(35), "percent", 7, TRUE),
      Rule("c", "notional_amount", "tolerance", NoTol, "percent", 0, TRUE),
      Rule("d", "notional_amount", "tolerance", Tol(140), "percent", 0, FALSE) }

PctValues ==
    { PyInt(100), PyInt(107), PyInt(93), PyFloat(1035), PyInt(0), PyFloat(0),
      PyInt(-100), PyInt(50), PyInt(57), PyStr(<<"1", "0", "7">>), PyNone }

PctCalls ==
    { Call("notional_amount", ev, sv, c) : ev \in PctValues, sv \in PctValues \ {PyNone},
                                          c \in {5, 9} }

NextPct ==
    \/ SetRules(SeqsUpTo(PctRulePool, MaxRules))
    \/ CompareValues(PctCalls)
    \/ Return

SpecPct == Init /\ [][NextPct]_vars

FuzzyRulePool ==
    { Rule("a", "party_a", "fuzzy", NoTol, NoUnit, 0, TRUE),
      Rule("b", "party_a", "fuzzy", Tol(5), NoUnit, 7, TRUE),
      Rule("c", "party_a", "exact", NoTol, NoUnit, 0, FALSE) }

FuzzyValues ==
    { PyStr(<<"a", "b", "c", "d", "e">>), PyStr(<<" ", "A", "B", "C", "D", "E", " ">>), PyStr(<<"a", "b", "c", "d", "x">>), PyStr(<<"a", "b", "x", "c", "d", "e">>),
      PyStr(<<"a", "b", "c", "d", "e", "f", "g", "h", "i", "j", "k", "l", "m", "n", "o", "p", "q", "r", "s", "t">>), PyStr(<<"a", "b", "c", "d", "e", "f", "g", "h", "i", "j", "k", "l", "m", "n", "o", "p", "q", "r", "s", "x">>),
      PyStr(<<"a", "b", "c", "d", "e", "f", "g", "h", "i", "j", "k", "l", "m", "n", "o", "p", "q", "r", "x", "x">>), PyStr(<<"x", "y", "z">>), PyStr(<<>>),
      PyInt(1000000), PyFloat(10000005), PyNone }

FuzzyCalls ==
    { Call("party_a", ev, sv, c) : ev \in FuzzyValues, sv \in FuzzyValues \ {PyNone},
                                   c \in {5, 9} }

NextFuzzy ==
    \/ SetRules(SeqsUpTo(FuzzyRulePool, MaxRules))
    \/ CompareValues(FuzzyCalls)
    \/ Return

SpecFuzzy == Init /\ [][NextFuzzy]_vars

(***************************************************************************)
(* The evidence normalizer (backend/app/services/evidence_processor.py).   *)
(*                                                                         *)
(* A file path stands for the file behind it: the record carries its name  *)
(* and what the parsers and the OCR service return for it.  An outcome is  *)
(* a Python value, or Raises when the call raised.  The optional imports   *)
(* (extract_msg, DocxFile) are fixed at import time; modules says which    *)
(* of them succeeded.  A call that raises returns the raised error.        *)
(***************************************************************************)
min_pdf_text_length == 80

max_pdf_ocr_pages == 3

SUPPORTED_ATTACHMENT_EXTENSIONS ==
    { <<".", "p", "d", "f">>, <<".", "d", "o", "c", "x">>, <<".", "p", "n", "g">>, <<".", "j", "p", "g">>, <<".", "j", "p", "e", "g">>, <<".", "g", "i", "f">>, <<".", "b", "m", "p">> }

NormalizedEvidence(content, image_path, metadata) ==
    [content |-> content, image_path |-> image_path, metadata |-> metadata]

Raises == [t |-> "raise", s |-> <<>>, n |-> 0]

\* a warning string: its fixed text and the name or detail formatted into it
Warning(text, about) == [text |-> text, about |-> about]

NoPath == [none |-> TRUE]

File(dir, name, opens, ocr, pages, paragraphs, tables) ==
    [dir |-> dir, name |-> name, opens |-> opens, ocr |-> ocr, pages |-> pages,
     paragraphs |-> paragraphs, tables |-> tables]

Min(a, b) == IF a <= b THEN a ELSE b

\* sep.join(parts)
RECURSIVE Join(_, _)
Join(sep, parts) ==
    IF Len(parts) = 0 THEN <<>>
    ELSE IF Len(parts) = 1 THEN parts[1]
    ELSE parts[1] \o sep \o Join(sep, Tail(parts))

\* value or ""
OrEmpty(v) == IF v.t = "str" THEN v.s ELSE <<>>

\* the parts of a list that are not empty
NonEmpty(parts) == SelectSeq(parts, LAMBDA p : Len(p) > 0)

\* os.path.splitext(name)[1]: from the last dot on, unless only dots precede it
splitext(name) ==
    LET dots == {i \in 1..Len(name) : name[i] = "."}
    IN  IF dots = {} THEN <<>>
        ELSE LET k == CHOOSE i \in dots : \A j \in dots : i >= j
             IN  IF \E j \in 1..(k - 1) : name[j] # "." THEN SubSeq(name, k, Len(name))
                 ELSE <<>>

\* vision_ocr.process_document: the OCR outcome of a file the service reads,
\* a ValueError for a file of another extension
process_document(file_path, outcome) ==
    IF lower(splitext(file_path.name))
         \in { <<".", "p", "d", "f">>, <<".", "p", "n", "g">>, <<".", "j", "p", "g">>,
               <<".", "j", "p", "e", "g">>, <<".", "t", "i", "f", "f">>, <<".", "b", "m", "p">> }
    THEN outcome
    ELSE Raises

_extract_pdf_text(file_path) ==
    IF ~file_path.opens THEN <<>>
    ELSE IF \E i \in 1..Len(file_path.pages) : file_path.pages[i].text = Raises THEN <<>>
    ELSE Join(<<"\n">>,
             NonEmpty([i \in 1..Len(file_path.pages) |->
                          strip(OrEmpty(file_path.pages[i].text))]))

\* the OCR calls of a loop that stops at the first page whose OCR raises
OcrPages_until_failure(file_path) ==
    IF ~file_path.opens THEN <<>>
    ELSE LET n == Min(Len(file_path.pages), max_pdf_ocr_pages)
             failing == {i \in 1..n : file_path.pages[i].ocr = Raises}
         IN  [i \in 1..(IF failing = {} THEN n
                        ELSE CHOOSE i \in failing : \A j \in failing : i <= j) |-> i - 1]

\* the OCR calls of _extract_pdf_ocr_text: page numbers from 0, in call order
OcrPages(file_path) ==
    IF ~file_path.opens THEN <<>>
    ELSE [i \in 1..Min(Len(file_path.pages), max_pdf_ocr_pages) |-> i - 1]

_extract_pdf_ocr_text(file_path) ==
    IF ~file_path.opens THEN [text |-> <<>>, pages |-> 0]
    ELSE [text |-> Join(<<"\n">>,
                      NonEmpty([i \in 1..Len(OcrPages(file_path)) |->
                          strip(OrEmpty(process_document(file_path,
                              file_path.pages[OcrPages(file_path)[i] + 1].ocr)))])),
          pages |-> Min(Len(file_path.pages), max_pdf_ocr_pages)]

_combine_text_ocr_first(pdf_text, ocr_text) ==
    IF strip(ocr_text) # <<>> THEN strip(ocr_text) ELSE strip(pdf_text)

_combine_text(pdf_text, ocr_text) ==
    LET pdf_clean == strip(pdf_text)
        ocr_clean == strip(ocr_text)
    IN  IF pdf_clean # <<>> /\ ocr_clean # <<>>
        THEN pdf_clean \o <<"\n", "\n", "[", "O", "C", "R", " ", "F", "A", "L", "L", "B", "A", "C", "K", "]", "\n">> \o ocr_clean
        ELSE IF pdf_clean # <<>> THEN pdf_clean ELSE ocr_clean

_prepare_pdf_evidence(file_path) ==
    LET extracted_text == _extract_pdf_text(file_path)
        needs_ocr == Len(strip(extracted_text)) < min_pdf_text_length
        ocr == IF needs_ocr THEN _extract_pdf_ocr_text(file_path)
               ELSE [text |-> <<>>, pages |-> 0]
        warnings == IF needs_ocr /\ strip(ocr.text) = <<>>
                    THEN <<Warning("PDF OCR fallback produced no text", <<>>)>>
                    ELSE <<>>
        content == _combine_text(extracted_text, ocr.text)
    IN  NormalizedEvidence(
            IF content = <<>> THEN <<"[", "P", "D", "F", " ", "e", "v", "i", "d", "e", "n", "c", "e", ":", " ", "n", "o", " ", "e", "x", "t", "r", "a", "c", "t", "a", "b", "l", "e", " ", "t", "e", "x", "t", "]">> ELSE content,
            NoPath,
            [source_type |-> "pdf", pdf_text_length |-> Len(extracted_text),
             ocr_used |-> needs_ocr, ocr_pages_processed |-> ocr.pages,
             ocr_text_length |-> Len(ocr.text), warnings |-> warnings])

\* image evidence whose content is the OCR text as returned
_prepare_image_evidence_untrimmed(file_path) ==
    LET ocr_result == process_document(file_path, file_path.ocr)
        ocr_text == OrEmpty(ocr_result)
    IN  NormalizedEvidence(
            IF ocr_text # <<>> THEN ocr_text
            ELSE <<"[", "I", "m", "a", "g", "e", " ", "e", "v", "i", "d", "e", "n", "c", "e", ":", " ", "O", "C", "R", " ", "t", "e", "x", "t", " ", "u", "n", "a", "v", "a", "i", "l", "a", "b", "l", "e", "]">>,
            file_path,
            [source_type |-> "image", ocr_used |-> TRUE, ocr_text_length |-> Len(ocr_text),
             warnings |-> IF ocr_result = Raises
                          THEN <<Warning("Image OCR failed", <<>>)>> ELSE <<>>])

_prepare_image_evidence(file_path) ==
    LET ocr_result == process_document(file_path, file_path.ocr)
        ocr_text == strip(OrEmpty(ocr_result))
    IN  NormalizedEvidence(
            IF ocr_text # <<>> THEN ocr_text
            ELSE <<"[", "I", "m", "a", "g", "e", " ", "e", "v", "i", "d", "e", "n", "c", "e", ":", " ", "O", "C", "R", " ", "t", "e", "x", "t", " ", "u", "n", "a", "v", "a", "i", "l", "a", "b", "l", "e", "]">>,
            file_path,
            [source_type |-> "image", ocr_used |-> TRUE, ocr_text_length |-> Len(ocr_text),
             warnings |-> IF ocr_result = Raises
                          THEN <<Warning("Image OCR failed", <<>>)>> ELSE <<>>])

\* the paragraphs read before one raises, and whether one raised
RECURSIVE ParagraphTexts(_)
ParagraphTexts(paragraphs) ==
    IF Len(paragraphs) = 0 THEN [parts |-> <<>>, failed |-> FALSE]
    ELSE IF paragraphs[1] = Raises THEN [parts |-> <<>>, failed |-> TRUE]
    ELSE LET rest == ParagraphTexts(Tail(paragraphs))
             text == strip(OrEmpty(paragraphs[1]))
         IN  [parts |-> (IF text # <<>> THEN <<text>> ELSE <<>>) \o rest.parts,
              failed |-> rest.failed]

\* " | ".join(cell.text.strip() for cell in row.cells if cell.text.strip())
RowText(row) == Join(<<" ", "|", " ">>, NonEmpty([i \in 1..Len(row) |-> strip(row[i])]))

_prepare_docx_evidence(modules, file_path) ==
    IF ~modules.DocxFile
    THEN Raised("ValueError", "DOCX processing requires 'python-docx'")
    ELSE LET read == IF ~file_path.opens THEN [parts |-> <<>>, failed |-> TRUE]
                     ELSE ParagraphTexts(file_path.paragraphs)
             text_parts ==
                 IF read.failed THEN read.parts
                 ELSE read.parts
                      \o NonEmpty([i \in 1..Len(file_path.tables) |->
                                      RowText(file_path.tables[i])])
             content == strip(Join(<<"\n">>, text_parts))
         IN  NormalizedEvidence(
                 IF content # <<>> THEN content
                 ELSE <<"[", "D", "O", "C", "X", " ", "e", "v", "i", "d", "e", "n", "c", "e", ":", " ", "n", "o", " ", "e", "x", "t", "r", "a", "c", "t", "a", "b", "l", "e", " ", "t", "e", "x", "t", "]">>,
                 NoPath,
                 [source_type |-> "docx",
                  warnings |-> IF read.failed
                               THEN <<Warning("DOCX extraction failed", <<>>)>> ELSE <<>>])

\* re.sub(r"<[^>]+>", " ", content) from position i on
RECURSIVE StripTags(_, _)
StripTags(content, i) ==
    IF i > Len(content) THEN <<>>
    ELSE LET closing == {j \in (i + 1)..Len(content) : content[j] = ">"}
         IN  IF content[i] = "<" /\ closing # {}
                /\ (CHOOSE j \in closing : \A k \in closing : j <= k) >= i + 2
             THEN <<" ">> \o StripTags(content,
                                 (CHOOSE j \in closing : \A k \in closing : j <= k) + 1)
             ELSE <<content[i]>> \o StripTags(content, i + 1)

\* re.sub(r"\s+", " ", content)
RECURSIVE CollapseSpace(_)
CollapseSpace(content) ==
    IF Len(content) = 0 THEN <<>>
    ELSE IF content[1] \in Whitespace
    THEN IF Len(content) > 1 /\ content[2] \in Whitespace
         THEN CollapseSpace(Tail(content))
         ELSE <<" ">> \o CollapseSpace(Tail(content))
    ELSE <<content[1]>> \o CollapseSpace(Tail(content))

Has(content, c) == \E i \in 1..Len(content) : content[i] = c

_clean_text(content) ==
    IF Has(content, "<") /\ Has(content, ">")
    THEN strip(CollapseSpace(StripTags(content, 1)))
    ELSE content

SafeChars ==
    {UpperChars[i] : i \in 1..Len(UpperChars)} \cup {LowerChars[i] : i \in 1..Len(LowerChars)}
    \cup {DigitChars[i] : i \in 1..Len(DigitChars)} \cup {".", "_", "-"}

\* Path(name).name: the last component of the path
RECURSIVE PathName(_)
PathName(name) ==
    IF Len(name) = 0 THEN <<>>
    ELSE IF name[Len(name)] = "/" THEN PathName(SubSeq(name, 1, Len(name) - 1))
    ELSE LET slashes == {i \in 1..Len(name) : name[i] = "/"}
         IN  IF slashes = {} THEN name
             ELSE SubSeq(name, (CHOOSE i \in slashes : \A j \in slashes : i >= j) + 1,
                         Len(name))

_safe_attachment_name(name) ==
    LET base == PathName(name)
        safe == [i \in 1..Len(base) |-> IF base[i] \in SafeChars THEN base[i] ELSE "_"]
    IN  IF Len(safe) > 0 THEN safe ELSE <<"a", "t", "t", "a", "c", "h", "m", "e", "n", "t", ".", "b", "i", "n">>

ImageExtensions == { <<".", "p", "n", "g">>, <<".", "j", "p", "g">>, <<".", "j", "p", "e", "g">>, <<".", "g", "i", "f">>, <<".", "b", "m", "p">> }

WithName(item_meta, filename) == item_meta @@ [attachment_name |-> filename]

\* (extracted_text, item_meta), or the error raised
_extract_attachment_text(modules, attachment_path) ==
    LET ext == lower(splitext(attachment_path.name))
    IN  IF ext \in ImageExtensions
        THEN The({ [text |-> image_evidence.content,
                    meta |-> [source_type |-> "image",
                              ocr_text_length |-> image_evidence.metadata.ocr_text_length,
                              warnings |-> image_evidence.metadata.warnings]] :
                   image_evidence \in {_prepare_image_evidence(attachment_path)} })
        ELSE IF ext = <<".", "p", "d", "f">>
        THEN The({ [text |-> pdf_evidence.content,
                    meta |-> [source_type |-> "pdf",
                              pdf_text_length |-> pdf_evidence.metadata.pdf_text_length,
                              ocr_used |-> pdf_evidence.metadata.ocr_used,
                              ocr_text_length |-> pdf_evidence.metadata.ocr_text_length,
                              warnings |-> pdf_evidence.metadata.warnings]] :
                   pdf_evidence \in {_prepare_pdf_evidence(attachment_path)} })
        ELSE IF ext = <<".", "d", "o", "c", "x">>
        THEN The({ IF IsRaised(docx_evidence) THEN docx_evidence
                   ELSE [text |-> docx_evidence.content,
                         meta |-> [source_type |-> "docx",
                                   docx_text_length |-> Len(docx_evidence.content),
                                   warnings |-> docx_evidence.metadata.warnings]] :
                   docx_evidence \in {_prepare_docx_evidence(modules, attachment_path)} })
        ELSE [text |-> <<>>,
              meta |-> [source_type |-> "unknown",
                        warnings |-> <<Warning("Unsupported attachment extension", ext)>>]]

\* the name an attachment is given: longFilename or shortFilename or attachment_<index>
AttachmentName(attachment, index) ==
    _safe_attachment_name(
        IF Truthy(attachment.longFilename) THEN attachment.longFilename.s
        ELSE IF Truthy(attachment.shortFilename) THEN attachment.shortFilename.s
        ELSE <<"a", "t", "t", "a", "c", "h", "m", "e", "n", "t", "_">> \o IntChars(index))

\* where an attachment is saved: attachment_dir/<index>_<filename>
AttachmentPath(attachment, attachment_dir, index) ==
    File(attachment_dir, IntChars(index) \o <<"_">> \o AttachmentName(attachment, index),
         attachment.opens, attachment.ocr, attachment.pages, attachment.paragraphs,
         attachment.tables)

NoAttachments ==
    [warnings |-> <<>>, attachment_text_parts |-> <<>>, attachment_metadata |-> <<>>,
     first_image_path |-> NoPath, io |-> <<>>]

\* what the loop does to an attachment's file: it is written to attachment_dir
\* ("save") or handed to _extract_attachment_text ("parse")
Event(event, index) == [event |-> event, index |-> index]

\* one pass of the attachment loop; io is the order of its file operations
EachAttachment_parse_unsaved(modules, attachment, attachment_dir, index, acc) ==
    LET filename == AttachmentName(attachment, index)
        ext == lower(splitext(filename))
        attachment_path == AttachmentPath(attachment, attachment_dir, index)
    IN  IF ext = <<".", "z", "i", "p">> \/ ext \notin SUPPORTED_ATTACHMENT_EXTENSIONS
        THEN [acc EXCEPT !.warnings = Append(@, Warning("Ignored attachment", filename))]
        ELSE The({
            IF IsRaised(extracted) THEN extracted @@ [io |-> acc.io]
            ELSE [acc EXCEPT
                     !.io = (IF attachment.saves THEN Append(@, Event("save", index)) ELSE @)
                            \o <<Event("parse", index)>>,
                     !.attachment_metadata = Append(@, WithName(extracted.meta, filename))] :
            extracted \in {_extract_attachment_text(modules, attachment_path)} })

\* the attachment loop with the image path of the latest image attachment
EachAttachment_last_image(modules, attachment, attachment_dir, index, acc) ==
    LET filename == AttachmentName(attachment, index)
        ext == lower(splitext(filename))
        attachment_path == AttachmentPath(attachment, attachment_dir, index)
    IN  IF ext = <<".", "z", "i", "p">>
        THEN [acc EXCEPT !.warnings = Append(@, Warning("Ignored zip attachment", filename))]
        ELSE IF ext \notin SUPPORTED_ATTACHMENT_EXTENSIONS
        THEN [acc EXCEPT !.warnings =
                 Append(@, Warning("Ignored unsupported attachment type", filename))]
        ELSE IF ~attachment.saves
        THEN [acc EXCEPT !.warnings =
                 Append(@, Warning("Failed to save attachment", filename))]
        ELSE The({
            IF IsRaised(extracted)
            THEN extracted @@ [io |-> acc.io \o <<Event("save", index), Event("parse", index)>>]
            ELSE [acc EXCEPT
                     !.io = @ \o <<Event("save", index), Event("parse", index)>>,
                     !.attachment_metadata = Append(@, WithName(extracted.meta, filename)),
                     !.attachment_text_parts =
                         IF strip(extracted.text) # <<>>
                         THEN Append(@, <<"[", "A", "t", "t", "a", "c", "h", "m", "e", "n", "t", ":", " ">> \o filename \o <<"]", "\n">>
                                        \o strip(extracted.text))
                         ELSE @,
                     !.first_image_path =
                         IF extracted.meta.source_type = "image"
                         THEN attachment_path ELSE @] :
            extracted \in {_extract_attachment_text(modules, attachment_path)} })

EachAttachment(modules, attachment, attachment_dir, index, acc) ==
    LET filename == AttachmentName(attachment, index)
        ext == lower(splitext(filename))
        attachment_path == AttachmentPath(attachment, attachment_dir, index)
    IN  IF ext = <<".", "z", "i", "p">>
        THEN [acc EXCEPT !.warnings = Append(@, Warning("Ignored zip attachment", filename))]
        ELSE IF ext \notin SUPPORTED_ATTACHMENT_EXTENSIONS
        THEN [acc EXCEPT !.warnings =
                 Append(@, Warning("Ignored unsupported attachment type", filename))]
        ELSE IF ~attachment.saves
        THEN [acc EXCEPT !.warnings =
                 Append(@, Warning("Failed to save attachment", filename))]
        ELSE The({
            IF IsRaised(extracted)
            THEN extracted @@ [io |-> acc.io \o <<Event("save", index), Event("parse", index)>>]
            ELSE [acc EXCEPT
                     !.io = @ \o <<Event("save", index), Event("parse", index)>>,
                     !.attachment_metadata = Append(@, WithName(extracted.meta, filename)),
                     !.attachment_text_parts =
                         IF strip(extracted.text) # <<>>
                         THEN Append(@, <<"[", "A", "t", "t", "a", "c", "h", "m", "e", "n", "t", ":", " ">> \o filename \o <<"]", "\n">>
                                        \o strip(extracted.text))
                         ELSE @,
                     !.first_image_path =
                         IF extracted.meta.source_type = "image" /\ @ = NoPath
                         THEN attachment_path ELSE @] :
            extracted \in {_extract_attachment_text(modules, attachment_path)} })

\* for index, attachment in enumerate(message.attachments), from index on
RECURSIVE AttachmentsFrom(_, _, _, _, _)
AttachmentsFrom(modules, attachments, attachment_dir, index, acc) ==
    IF index >= Len(attachments) \/ IsRaised(acc) THEN acc
    ELSE AttachmentsFrom(modules, attachments, attachment_dir, index + 1,
             EachAttachment(modules, attachments[index + 1], attachment_dir, index, acc))

_prepare_msg_evidence(modules, file_path, doc_id) ==
    IF ~modules.extract_msg
    THEN Raised("ValueError", "MSG processing requires 'extract-msg'")
    ELSE IF ~file_path.opens THEN Raised("Exception", "extract_msg.Message")
    ELSE IF ~file_path.makedirs THEN Raised("OSError", "os.makedirs")
    ELSE LET subject == strip(OrEmpty(file_path.subject))
             sender == strip(OrEmpty(file_path.sender))
             body == _clean_text(strip(OrEmpty(file_path.body)))
             attachment_dir == file_path.dir \o "/" \o doc_id \o "_attachments"
             email_header_block ==
                 Join(<<"\n">>,
                      NonEmpty(<< IF subject # <<>> THEN <<"S", "u", "b", "j", "e", "c", "t", ":", " ">> \o subject ELSE <<>>,
                                  IF sender # <<>> THEN <<"F", "r", "o", "m", ":", " ">> \o sender ELSE <<>>,
                                  <<"[", "E", "m", "a", "i", "l", " ", "B", "o", "d", "y", "]">>,
                                  body >>))
         IN  The({
             LET combined_content ==
                     Join(<<"\n", "\n">>,
                          NonEmpty(<<email_header_block>> \o done.attachment_text_parts))
             IN
             IF IsRaised(done) THEN Raised(done.raised, done.message)
             ELSE NormalizedEvidence(
                      IF strip(combined_content) # <<>> THEN combined_content
                      ELSE <<"[", "M", "S", "G", " ", "e", "v", "i", "d", "e", "n", "c", "e", ":", " ", "n", "o", " ", "e", "x", "t", "r", "a", "c", "t", "a", "b", "l", "e", " ", "c", "o", "n", "t", "e", "n", "t", "]">>,
                      done.first_image_path,
                      [source_type |-> "msg", subject |-> subject, sender |-> sender,
                       attachments_processed |-> Len(done.attachment_metadata),
                       attachments |-> done.attachment_metadata,
                       warnings |-> done.warnings]) :
             done \in {AttachmentsFrom(modules, file_path.attachments, attachment_dir, 0,
                           NoAttachments)} })

\* the file operations of the attachment loop of a call, in order
AttachmentIO(modules, doc) ==
    IF doc.file_type # "msg" \/ doc.file_path = NoPath \/ ~modules.extract_msg
       \/ ~doc.file_path.opens \/ ~doc.file_path.makedirs
    THEN <<>>
    ELSE The({ done.io :
               done \in {AttachmentsFrom(modules, doc.file_path.attachments,
                             doc.file_path.dir \o "/" \o doc.id \o "_attachments", 0,
                             NoAttachments)} })

prepare_document_content(modules, doc) ==
    IF doc.file_type = "text"
    THEN NormalizedEvidence(strip(OrEmpty(doc.content)), NoPath,
             [source_type |-> "text", has_content |-> strip(OrEmpty(doc.content)) # <<>>,
              warnings |-> <<>>])
    ELSE IF doc.file_path = NoPath THEN Raised("ValueError", "Document has no file path")
    ELSE CASE doc.file_type = "image" -> _prepare_image_evidence(doc.file_path)
           [] doc.file_type = "pdf" -> _prepare_pdf_evidence(doc.file_path)
           [] doc.file_type = "docx" -> _prepare_docx_evidence(modules, doc.file_path)
           [] doc.file_type = "msg" -> _prepare_msg_evidence(modules, doc.file_path, doc.id)
           [] OTHER -> Raised("ValueError", "Unsupported file type")

(***************************************************************************)
(* The documents the normalizer is applied to.                             *)
(***************************************************************************)
MaxPages == 4

MaxAttachments == 2

Installed == [extract_msg |-> TRUE, DocxFile |-> TRUE]

Modules == [extract_msg : BOOLEAN, DocxFile : BOOLEAN]

Page(text, ocr) == [text |-> text, ocr |-> ocr]

\* a text layer of n characters
TextOf(n) == [i \in 1..n |-> "x"]

PageKinds ==
    { Page(PyStr(<<" ", "T", "r", "a", "d", "e", " ", "1", " ">>), PyStr(<<"S", "c", "a", "n", " ", "1", " ">>)),
      Page(PyNone, Raises),
      Page(PyStr(<<" ", " ">>), PyStr(<<>>)),
      Page(PyStr(TextOf(min_pdf_text_length)), PyStr(<<"S", "c", "a", "n", " ", "2">>)),
      Page(PyStr(TextOf(min_pdf_text_length - 1)), PyStr(<<" ">>)),
      Page(Raises, PyStr(<<"S", "c", "a", "n", " ", "1">>)) }

PdfFile(name, opens, pages) == File("uploads", name, opens, PyNone, pages, <<>>, <<>>)

PdfFiles ==
    { PdfFile(<<"c", "o", "n", "f", ".", "p", "d", "f">>, TRUE, pages) : pages \in SeqsUpTo(PageKinds, MaxPages) }
    \cup { PdfFile(<<"c", "o", "n", "f", ".", "p", "d", "f">>, FALSE, pages) : pages \in SeqsUpTo(PageKinds, 1) }

Document(id, file_type, file_path, content) ==
    [id |-> id, file_type |-> file_type, file_path |-> file_path, content |-> content]

PdfDocs == { Document(DocumentId, "pdf", f, PyNone) : f \in PdfFiles }

ImageFile(name, ocr) == File("uploads", name, TRUE, ocr, <<>>, <<>>, <<>>)

ImageDocs ==
    { Document(DocumentId, "image", ImageFile(name, ocr), PyNone) :
        name \in { <<"s", "c", "a", "n", ".", "p", "n", "g">>, <<"s", "c", "a", "n", ".", "G", "I", "F">> },
        ocr \in {PyStr(<<" ", "S", "c", "a", "n", " ", "1", " ">>), PyStr(<<" ">>), PyStr(<<>>), Raises} }

WordFile(name, opens, paragraphs, tables) ==
    File("uploads", name, opens, PyNone, <<>>, paragraphs, tables)

DocxFiles ==
    { WordFile(<<"t", "e", "r", "m", "s", ".", "d", "o", "c", "x">>, opens, paragraphs, tables) :
        opens \in BOOLEAN,
        paragraphs \in { <<>>, <<PyStr(<<" ", "T", "e", "r", "m", "s", " ">>), PyStr(<<>>)>>,
                         <<PyStr(<<"T", "e", "r", "m", "s">>), Raises, PyStr(<<"A", "n", "n", "e", "x">>)>>, <<Raises>> },
        tables \in { <<>>, << <<<<"I", "S", "I", "N">>, <<" ">>, <<" ", "U", "S", "2", " ">>>>, <<<<" ">>>> >> } }

DocxDocs == { Document(DocumentId, "docx", f, PyNone) : f \in DocxFiles }

Attachment(longFilename, shortFilename, saves, opens, ocr, pages, paragraphs, tables) ==
    [longFilename |-> longFilename, shortFilename |-> shortFilename, saves |-> saves,
     opens |-> opens, ocr |-> ocr, pages |-> pages, paragraphs |-> paragraphs,
     tables |-> tables]

AttachmentKinds ==
    { Attachment(PyStr(<<"s", "c", "a", "n", ".", "P", "N", "G">>), PyNone, TRUE, TRUE, PyStr(<<"S", "c", "a", "n", " ", "1">>), <<>>, <<>>, <<>>),
      Attachment(PyStr(<<"i", "n", "/", "m", "y", " ", "p", "h", "o", "t", "o", ".", "j", "p", "g">>), PyNone, TRUE, TRUE, Raises, <<>>, <<>>, <<>>),
      Attachment(PyNone, PyStr(<<"i", "m", "g", ".", "g", "i", "f">>), TRUE, TRUE, PyStr(<<"S", "c", "a", "n", " ", "2">>), <<>>, <<>>, <<>>),
      Attachment(PyStr(<<"s", "c", "a", "n", ".", "P", "N", "G">>), PyNone, FALSE, TRUE, PyStr(<<"S", "c", "a", "n", " ", "1">>), <<>>, <<>>, <<>>),
      Attachment(PyStr(<<"c", "o", "n", "f", ".", "p", "d", "f">>), PyNone, TRUE, TRUE, PyNone,
          <<Page(PyStr(<<"T", "r", "a", "d", "e", " ", "1">>), PyStr(<<"S", "c", "a", "n", " ", "1">>))>>, <<>>, <<>>),
      Attachment(PyStr(<<"t", "e", "r", "m", "s", ".", "d", "o", "c", "x">>), PyNone, TRUE, TRUE, PyNone, <<>>,
          <<PyStr(<<"T", "e", "r", "m", "s">>)>>, <<>>),
      Attachment(PyStr(<<"a", "l", "l", ".", "Z", "I", "P">>), PyNone, TRUE, TRUE, PyNone, <<>>, <<>>, <<>>),
      Attachment(PyStr(<<"r", "u", "n", ".", "e", "x", "e">>), PyNone, TRUE, TRUE, PyNone, <<>>, <<>>, <<>>),
      Attachment(PyNone, PyNone, TRUE, TRUE, PyNone, <<>>, <<>>, <<>>) }

MsgFile(name, opens, makedirs, subject, sender, body, attachments) ==
    [dir |-> "uploads", name |-> name, opens |-> opens, makedirs |-> makedirs,
     subject |-> subject, sender |-> sender, body |-> body, attachments |-> attachments]

MsgFiles ==
    { MsgFile(<<"m", "a", "i", "l", ".", "m", "s", "g">>, TRUE, TRUE, PyStr(<<" ", "T", "R", "S", " ">>), PyStr(<<"d", "e", "s", "k">>),
          PyStr(<<"<", "p", ">", "H", "i", " ", " ", "<", "b", ">", "a", "l", "l", "<", "/", "b", ">", "<", "/", "p", ">">>), attachments) :
        attachments \in SeqsUpTo(AttachmentKinds, MaxAttachments) }
    \cup { MsgFile(<<"m", "a", "i", "l", ".", "m", "s", "g">>, opens, makedirs, subject, PyNone, body,
               <<Attachment(PyStr(<<"s", "c", "a", "n", ".", "P", "N", "G">>), PyNone, TRUE, TRUE, PyStr(<<"S", "c", "a", "n", " ", "1">>),
                     <<>>, <<>>, <<>>)>>) :
             opens \in BOOLEAN, makedirs \in BOOLEAN, subject \in {PyNone, PyStr(<<"T", "R", "S">>)},
             body \in {PyNone, PyStr(<<"a", " ", "<", ">", " ", "b">>)} }

MsgDocs == { Document(DocumentId, "msg", f, PyNone) : f \in MsgFiles }

OtherDocs ==
    { Document(DocumentId, "text", NoPath, PyStr(<<" ", "T", "r", "a", "d", "e", " ", "1", " ">>)),
      Document(DocumentId, "text", NoPath, PyNone),
      Document(DocumentId, "pdf", NoPath, PyNone),
      Document(DocumentId, "msg", NoPath, PyNone),
      Document(DocumentId, "xlsx", PdfFile(<<"b", "o", "o", "k", ".", "x", "l", "s", "x">>, TRUE, <<>>), PyNone) }

\* the pages of a PDF document the OCR service is called for, in call order
PdfOcrCalls(doc) ==
    IF doc.file_type # "pdf" \/ doc.file_path = NoPath THEN <<>>
    ELSE IF Len(strip(_extract_pdf_text(doc.file_path))) < min_pdf_text_length
    THEN OcrPages(doc.file_path)
    ELSE <<>>

\* the file operations and OCR calls of a call are kept with its arguments
PrepareDocumentContent(Docs, Imports) ==
    /\ op = "idle"
    /\ \E doc \in Docs, modules \in Imports :
          /\ call' = [doc |-> doc, modules |-> modules, io |-> AttachmentIO(modules, doc),
                      ocr_pages |-> PdfOcrCalls(doc)]
          /\ ret' = prepare_document_content(modules, doc)
    /\ op' = "prepare_document_content"
    /\ UNCHANGED <<rules, store, requests, loop>>

NextPdf ==
    \/ PrepareDocumentContent(PdfDocs, {Installed})
    \/ Return

SpecPdf == Init /\ [][NextPdf]_vars

NextMsg ==
    \/ PrepareDocumentContent(MsgDocs, Modules)
    \/ Return

SpecMsg == Init /\ [][NextMsg]_vars

EvidenceDocs ==
    ImageDocs \cup DocxDocs \cup MsgDocs \cup OtherDocs
    \cup { d \in PdfDocs : Len(d.file_path.pages) <= 2 }

NextEvidence ==
    \/ PrepareDocumentContent(EvidenceDocs, Modules)
    \/ Return

SpecEvidence == Init /\ [][NextEvidence]_vars

(***************************************************************************)
(* The API (backend/app/api/routes.py) over the record store               *)
(* (backend/app/db/database.py).  store holds the document of DocumentId   *)
(* and the matching rules; requests the handlers in flight; loop the       *)
(* request whose handler holds the asyncio event loop (0 when it is free). *)
(* A handler runs from one await that suspends it to the next without any  *)
(* other handler running; each of its statements is one step, and a step   *)
(* that touches the record store may raise.  rules is the rule list of the *)
(* module-level comparison_engine all requests share.                      *)
(***************************************************************************)

\* what the extraction adapter returns for a document's content
ApiExtracted ==
    { Extracted(Absent, Field(PyInt(1000000), 9), Absent),
      Extracted(Absent, Field(PyBigInt(309), 9), Absent),
      Extracted(Absent, Absent, Absent) }

\* the system records of the store
ApiTrades == << Trade(abc_1, PyFloat(10000005), PyNone) >>

\* the rule lists a client saves
ApiRuleSets == { <<>>, <<NotionalRule>> }

engine == <<rules, op, call, ret>>

\* as Awaits, with the record store and the engine awaited as well
Awaits_store_calls(kind, pc) ==
    \/ kind = "upload_document" /\ pc = "saving"
    \/ kind = "validate_document" /\ pc \in {"loaded", "rules_set"}

\* the places where a handler awaits something that suspends it: the file
\* read and write of upload_document.  extract_document awaits
\* extract_trade_data, a coroutine that runs the synchronous client to its
\* end and never gives up the loop; the other handlers have no await.
Awaits(kind, pc) == kind = "upload_document" /\ pc = "saving"

\* request r takes its step from pc: it holds the loop, or it was suspended
\* at pc and the loop is free
Runs(r, kind, pc) ==
    /\ requests[r].kind = kind
    /\ requests[r].pc = pc
    /\ \/ loop = r
       \/ loop = 0 /\ Awaits(kind, pc)

\* a request that is neither started nor answered is in flight
InFlight(r) == requests[r].pc \notin {"idle", "done"}

\* a new request is started when the loop is free; it takes the first slot
\* that holds no request in flight
Accepts(r) ==
    /\ loop = 0
    /\ ~InFlight(r)
    /\ \A q \in 1..(r - 1) : InFlight(q)

\* request r goes on as req: it keeps the loop unless it is done or awaits
Goto(r, req) ==
    /\ requests' = [requests EXCEPT ![r] = req]
    /\ loop' = IF req.pc = "done" \/ Awaits(req.kind, req.pc) THEN 0 ELSE r

\* the handler returns, or raises HTTPException(status_code); its local
\* variables are gone
Responds(req, status_code) ==
    [NoRequest EXCEPT !.pc = "done", !.response = status_code]

\* a step of the handler raised and the request is answered 500
Fails(req) ==
    [NoRequest EXCEPT !.pc = "done", !.response = 500, !.raised = TRUE]

\* Document(...) as the create handlers build it: status "PENDING"
PendingDocument ==
    [exists |-> TRUE, status |-> "PENDING", extracted_data |-> Absent,
     validation_result |-> NoResult]

\* db.create_document(doc) for the tracked id; a document of another id
\* leaves the tracked one alone
create_document(doc) ==
    IF store.document.exists THEN store ELSE [store EXCEPT !.document = doc]

\* db.update_document(doc_id, {"status": status})
update_document(status) == [store EXCEPT !.document.status = status]

\* POST /documents/text
SubmitText(r) ==
    /\ Accepts(r)
    /\ store' = create_document(PendingDocument)
    /\ Goto(r, Responds([NoRequest EXCEPT !.kind = "submit_text"], 200))
    /\ UNCHANGED engine

\* POST /documents/upload up to its first await: the extension check
UploadDocument(r) ==
    /\ Accepts(r)
    /\ \E allowed \in BOOLEAN :
          Goto(r, IF allowed
                  THEN [NoRequest EXCEPT !.kind = "upload_document", !.pc = "saving"]
                  ELSE Responds([NoRequest EXCEPT !.kind = "upload_document"], 400))
    /\ UNCHANGED <<engine, store>>

\* upload_document after the file was read and written
UploadSaved(r) ==
    /\ Runs(r, "upload_document", "saving")
    /\ \E too_large \in BOOLEAN :
          IF too_large
          THEN /\ Goto(r, Responds(requests[r], 400))
               /\ UNCHANGED store
          ELSE /\ store' = create_document(PendingDocument)
               /\ Goto(r, Responds(requests[r], 200))
    /\ UNCHANGED engine

\* extract_document: db.get_document and the 404
ExtractDocument(r) ==
    /\ Accepts(r)
    /\ Goto(r, IF store.document.exists
               THEN [NoRequest EXCEPT !.kind = "extract_document", !.pc = "found",
                                      !.doc = store.document]
               ELSE Responds([NoRequest EXCEPT !.kind = "extract_document"], 404))
    /\ UNCHANGED <<engine, store>>

\* extract_document: the update to PROCESSING, before the try
ExtractProcessing(r) ==
    /\ Runs(r, "extract_document", "found")
    /\ \E ok \in BOOLEAN :
          IF ok
          THEN /\ store' = update_document("PROCESSING")
               /\ Goto(r, [requests[r] EXCEPT !.pc = "extracting"])
          ELSE /\ Goto(r, Fails(requests[r]))
               /\ UNCHANGED store
    /\ UNCHANGED engine

\* extract_document: the content and the awaited extract_trade_data
ExtractTradeData(r) ==
    /\ Runs(r, "extract_document", "extracting")
    /\ \E ok \in BOOLEAN, extracted_data \in ApiExtracted :
          Goto(r, IF ok
                  THEN [requests[r] EXCEPT !.pc = "extracted",
                                           !.doc.extracted_data = extracted_data]
                  ELSE [requests[r] EXCEPT !.pc = "except", !.raised = TRUE])
    /\ UNCHANGED <<engine, store>>

\* extract_document: the update to EXTRACTED with the extracted data
ExtractStore(r) ==
    /\ Runs(r, "extract_document", "extracted")
    /\ \E ok \in BOOLEAN :
          IF ok
          THEN /\ store' = [store EXCEPT !.document.status = "EXTRACTED",
                                         !.document.extracted_data =
                                             requests[r].doc.extracted_data]
               /\ Goto(r, Responds(requests[r], 200))
          ELSE /\ Goto(r, [requests[r] EXCEPT !.pc = "except", !.raised = TRUE])
               /\ UNCHANGED store
    /\ UNCHANGED engine

\* extract_document: the except clause, update to ERROR and the 500
ExtractExcept(r) ==
    /\ Runs(r, "extract_document", "except")
    /\ \E ok \in BOOLEAN :
          /\ store' = IF ok THEN update_document("ERROR") ELSE store
          /\ Goto(r, Fails(requests[r]))
    /\ UNCHANGED engine

\* validate_document: db.get_document, the 404 and the 400
ValidateDocument(r) ==
    /\ Accepts(r)
    /\ Goto(r, IF ~store.document.exists
               THEN Responds([NoRequest EXCEPT !.kind = "validate_document"], 404)
               ELSE IF store.document.extracted_data = Absent
               THEN Responds([NoRequest EXCEPT !.kind = "validate_document"], 400)
               ELSE [NoRequest EXCEPT !.kind = "validate_document", !.pc = "found",
                                      !.doc = store.document])
    /\ UNCHANGED <<engine, store>>

\* validate_document: rules = db.get_matching_rules()
ValidateLoadRules(r) ==
    /\ Runs(r, "validate_document", "found")
    /\ \E ok \in BOOLEAN :
          Goto(r, IF ok
                  THEN [requests[r] EXCEPT !.pc = "loaded", !.rules = store.matching_rules]
                  ELSE Fails(requests[r]))
    /\ UNCHANGED <<engine, store>>

\* validate_document: comparison_engine.set_rules(rules)
ValidateSetRules(r) ==
    /\ Runs(r, "validate_document", "loaded")
    /\ rules' = requests[r].rules
    /\ Goto(r, [requests[r] EXCEPT !.pc = "rules_set"])
    /\ UNCHANGED <<op, call, ret, store>>

\* validate_document: comparison_engine.find_best_match(...) on the system
\* records of the store (the call names them by the keywords of an earlier
\* signature), under the rule list the engine holds
ValidateFindBestMatch(r) ==
    /\ Runs(r, "validate_document", "rules_set")
    /\ LET validation_result ==
               find_best_match(rules, requests[r].doc.extracted_data, ApiTrades, DocumentId)
       IN  Goto(r, IF IsRaised(validation_result)
                   THEN Fails(requests[r])
                   ELSE [requests[r] EXCEPT !.pc = "compared", !.used_rules = rules,
                                            !.validation_result = validation_result])
    /\ UNCHANGED <<engine, store>>

\* validate_document: the result stored with VALIDATED, or the NOT_FOUND
\* snapshot stored with ERROR
ValidateStore(r) ==
    /\ Runs(r, "validate_document", "compared")
    /\ \E ok \in BOOLEAN :
          IF ok
          THEN /\ store' =
                     IF requests[r].validation_result # NoResult
                     THEN [store EXCEPT !.document.status = "VALIDATED",
                                        !.document.validation_result =
                                            requests[r].validation_result]
                     ELSE [store EXCEPT !.document.status = "ERROR",
                                        !.document.validation_result =
                                            not_found_snapshot(DocumentId)]
               /\ Goto(r, Responds(requests[r], 200))
          ELSE /\ Goto(r, Fails(requests[r]))
               /\ UNCHANGED store
    /\ UNCHANGED engine

\* PUT /rules
SaveMatchingRules(r) ==
    /\ Accepts(r)
    /\ \E rs \in ApiRuleSets : store' = [store EXCEPT !.matching_rules = rs]
    /\ Goto(r, Responds([NoRequest EXCEPT !.kind = "save_matching_rules"], 200))
    /\ UNCHANGED engine

NextApi ==
    \E r \in Requests :
        \/ SubmitText(r)
        \/ UploadDocument(r)
        \/ UploadSaved(r)
        \/ ExtractDocument(r)
        \/ ExtractProcessing(r)
        \/ ExtractTradeData(r)
        \/ ExtractStore(r)
        \/ ExtractExcept(r)
        \/ ValidateDocument(r)
        \/ ValidateLoadRules(r)
        \/ ValidateSetRules(r)
        \/ ValidateFindBestMatch(r)
        \/ ValidateStore(r)
        \/ SaveMatchingRules(r)

SpecApi == Init /\ [][NextApi]_vars


(***************************************************************************)
(* The extraction adapter (backend/app/services/llm_extractor.py) for text *)
(* content.  The language model's answer to a call is an input: the call   *)
(* raises, or returns a message.  A result is [result, calls]: what        *)
(* extract_trade_data returns or raises, and the model calls it made.      *)
(***************************************************************************)

\* part in text
Within(part, text) ==
    \E i \in 1..(Len(text) - Len(part) + 1) : SubSeq(text, i, i + Len(part) - 1) = part

UpperOf ==
    [c \in {LowerChars[i] : i \in 1..Len(LowerChars)} |->
        UpperChars[CHOOSE i \in 1..Len(LowerChars) : LowerChars[i] = c]]

upper(s) == [i \in 1..Len(s) |-> IF s[i] \in DOMAIN UpperOf THEN UpperOf[s[i]] ELSE s[i]]

\* any(keyword.lower() in line.lower() for keyword in keywords)
HasKeyword(line, keywords) == \E k \in 1..Len(keywords) : Within(keywords[k], lower(line))

\* ExtractedTrade(trade_type=..., fields=..., raw_text=...): the schema takes
\* the trade_type "TRS" only and raises a ValidationError for another one
ExtractedTrade(trade_type, fields, raw_text) ==
    IF trade_type = "TRS"
    THEN [trade_type |-> trade_type, fields |-> fields, raw_text |-> raw_text]
    ELSE Raised("ValidationError", "trade_type: Input should be 'TRS'")

\* the keyword detection of detect_trade_type
KeywordTradeType(content) ==
    IF HasKeyword(content, << <<"s", "w", "a", "p">>, <<"i", "r", "s">>, <<"c", "c", "s">>, <<"f", "i", "x", "e", "d", " ", "r", "a", "t", "e">>, <<"f", "l", "o", "a", "t", "i", "n", "g">>,
                              <<"s", "o", "f", "r">>, <<"e", "u", "r", "i", "b", "o", "r">>, <<"m", "a", "t", "u", "r", "i", "t", "y">> >>)
    THEN "SWAP"
    ELSE "FX"

\* detect_trade_type(content) under the model's reply to the detection call
detect_trade_type(client, content, reply) ==
    IF ~client \/ reply = Raises THEN KeywordTradeType(content)
    ELSE IF Within(<<"S", "W", "A", "P">>, upper(strip(reply.s))) THEN "SWAP" ELSE "FX"

\* _extract_pattern: the text after the first colon of the first line that
\* holds a keyword and a colon
RECURSIVE _extract_pattern(_, _)
_extract_pattern(lines, keywords) ==
    IF lines = <<>> THEN PyNone
    ELSE LET parts == SplitOn(Head(lines), ":")
         IN  IF HasKeyword(Head(lines), keywords) /\ Len(parts) > 1
             THEN PyStr(strip(parts[2]))
             ELSE _extract_pattern(Tail(lines), keywords)

\* re.findall(r'[\d,]+\.?\d*', line)[0], or no match
FirstNumber(line) ==
    LET starts == {i \in 1..Len(line) : IsDigit(line[i]) \/ line[i] = ","}
    IN  IF starts = {} THEN [found |-> FALSE, text |-> <<>>]
        ELSE LET lo == CHOOSE i \in starts : \A j \in starts : i <= j
                 hi == CHOOSE i \in lo..Len(line) :
                           /\ \A j \in lo..i : j \in starts
                           /\ (i + 1) \notin starts
                 dot == hi < Len(line) /\ line[hi + 1] = "."
                 from == IF dot THEN hi + 1 ELSE hi
                 to == CHOOSE i \in from..Len(line) :
                           /\ \A j \in (from + 1)..i : IsDigit(line[j])
                           /\ ~(i < Len(line) /\ IsDigit(line[i + 1]))
             IN  [found |-> TRUE, text |-> SubSeq(line, lo, to)]

\* float(text.replace(',', '')) for a match of the pattern with at most one
\* digit after the point: '' and '.' raise ValueError
FloatOf(text) ==
    LET t == SelectSeq(text, LAMBDA c : c # ",")
        dots == {i \in 1..Len(t) : t[i] = "."}
        ip == IF dots = {} THEN t ELSE SubSeq(t, 1, (CHOOSE i \in dots : TRUE) - 1)
        fp == IF dots = {} THEN <<>> ELSE SubSeq(t, (CHOOSE i \in dots : TRUE) + 1, Len(t))
    IN  IF ip = <<>> /\ fp = <<>>
        THEN Raised("ValueError", "could not convert string to float")
        ELSE PyFloat(10 * ToNat(ip) + ToNat(fp))

\* _extract_number: the first number of the first line that holds a keyword
\* and a number
RECURSIVE _extract_number(_, _)
_extract_number(lines, keywords) ==
    IF lines = <<>> THEN PyNone
    ELSE LET numbers == FirstNumber(Head(lines))
         IN  IF HasKeyword(Head(lines), keywords) /\ numbers.found
             THEN FloatOf(numbers.text)
             ELSE _extract_number(Tail(lines), keywords)

\* value or default; a helper that raised ends the expression
Or(value, default) ==
    IF IsRaised(value) THEN value ELSE IF Truthy(value) THEN value ELSE default

\* the first of the names that is in content.upper()
FirstIn(names, content) ==
    LET hits == {k \in 1..Len(names) : Within(names[k], upper(content))}
    IN  IF hits = {} THEN PyNone
        ELSE PyStr(names[CHOOSE k \in hits : \A j \in hits : k <= j])

\* the fields of _mock_extraction that are read without a regular expression
\* over the whole content (currency pair, rates and dates, which never raise,
\* and the constant spread are left out)
MockFields(content, trade_type) ==
    LET lines == SplitOn(content, "\n")
    IN  IF trade_type = "FX"
        THEN [trade_id |-> Field(Or(_extract_pattern(lines, << <<"t", "r", "a", "d", "e", " ", "i", "d">>, <<"r", "e", "f", "e", "r", "e", "n", "c", "e">>, <<"r", "e", "f">> >>),
                                    PyStr(<<"F", "X", "-", "D", "E", "M", "O", "-", "0", "0", "1">>)), 7),
              counterparty |-> Field(Or(_extract_pattern(lines, << <<"c", "o", "u", "n", "t", "e", "r", "p", "a", "r", "t", "y">>, <<"c", "l", "i", "e", "n", "t">>, <<"p", "a", "r", "t", "y">> >>),
                                        PyStr(<<"D", "e", "m", "o", " ", "B", "a", "n", "k">>)), 6),
              direction |-> Field(IF Within(<<"b", "u", "y">>, lower(content))
                                  THEN PyStr(<<"B", "U", "Y">>) ELSE PyStr(<<"S", "E", "L", "L">>), 7),
              notional |-> Field(Or(_extract_number(lines, << <<"n", "o", "t", "i", "o", "n", "a", "l">>, <<"a", "m", "o", "u", "n", "t">>, <<"p", "r", "i", "n", "c", "i", "p", "a", "l">> >>),
                                    PyInt(1000000)), 6)]
        ELSE [trade_id |-> Field(Or(_extract_pattern(lines, << <<"t", "r", "a", "d", "e", " ", "i", "d">>, <<"r", "e", "f", "e", "r", "e", "n", "c", "e">> >>),
                                    PyStr(<<"I", "R", "S", "-", "D", "E", "M", "O", "-", "0", "0", "1">>)), 7),
              counterparty |-> Field(Or(_extract_pattern(lines, << <<"c", "o", "u", "n", "t", "e", "r", "p", "a", "r", "t", "y">>, <<"c", "l", "i", "e", "n", "t">> >>),
                                        PyStr(<<"D", "e", "m", "o", " ", "B", "a", "n", "k">>)), 6),
              trade_type |-> Field(IF Within(<<"i", "n", "t", "e", "r", "e", "s", "t", " ", "r", "a", "t", "e">>, lower(content))
                                   THEN PyStr(<<"I", "R", "S">>) ELSE PyStr(<<"C", "C", "S">>), 7),
              notional |-> Field(Or(_extract_number(lines, << <<"n", "o", "t", "i", "o", "n", "a", "l">>, <<"a", "m", "o", "u", "n", "t">> >>),
                                    PyInt(10000000)), 6),
              currency |-> Field(Or(FirstIn(<< <<"U", "S", "D">>, <<"E", "U", "R">>, <<"G", "B", "P">>, <<"J", "P", "Y">>, <<"C", "H", "F">>, <<"A", "U", "D">>,
                                               <<"C", "A", "D">> >>, content), PyStr(<<"U", "S", "D">>)), 7),
              floating_index |-> Field(Or(FirstIn(<< <<"S", "O", "F", "R">>, <<"E", "U", "R", "I", "B", "O", "R">>, <<"S", "O", "N", "I", "A">>, <<"L", "I", "B", "O", "R">>,
                                                     <<"T", "O", "N", "A", "R">>, <<"E", "S", "T", "R">> >>, content),
                                          PyStr(<<"S", "O", "F", "R">>)), 7),
              payment_frequency |-> Field(PyStr(<<"Q", "u", "a", "r", "t", "e", "r", "l", "y">>), 5)]

\* _mock_extraction: a helper that raises ends it; the fields are built
\* before the ExtractedTrade
_mock_extraction(content, trade_type) ==
    The({ IF IsRaised(fields.notional.value) THEN fields.notional.value
          ELSE ExtractedTrade(trade_type, fields, content) :
          fields \in {MockFields(content, trade_type)} })

\* the try block of extract_trade_data under the model's reply: the call,
\* json.loads and the ExtractedTrade; any exception ends it
ModelExtraction(content, trade_type, reply) ==
    IF reply = Raises THEN Raised("APIError", "the call raised")
    ELSE IF ~reply.json THEN Raised("JSONDecodeError", "json.loads")
    ELSE ExtractedTrade(IF reply.trade_type = "" THEN trade_type ELSE reply.trade_type,
                        reply.fields, content)

\* extract_trade_data(content, None, trade_type): trade_type "" stands for
\* None, detection and extraction are the model's replies to the two calls
extract_trade_data(client, content, trade_type, detection, extraction) ==
    LET detected == IF trade_type = "" THEN detect_trade_type(client, content, detection)
                    ELSE trade_type
        detect_calls == IF trade_type = "" /\ client THEN <<"detect">> ELSE <<>>
    IN  IF ~client
        THEN [result |-> _mock_extraction(content, detected), calls |-> detect_calls]
        ELSE The({ [result |-> IF IsRaised(answer)
                               THEN _mock_extraction(content, detected)
                               ELSE answer,
                    calls |-> Append(detect_calls, "extract")] :
                   answer \in {ModelExtraction(content, detected, extraction)} })

\* the document contents the adapter is called with
LlmContents ==
    { <<"T", "r", "a", "d", "e", " ", "I", "D", ":", " ", "T", "-", "1", "\n", "N", "o", "t", "i", "o", "n", "a", "l", ":", " ", "5", ",", "0", "0", "0", " ", "U", "S", "D">>,
      <<"R", "e", "f", "e", "r", "e", "n", "c", "e", " ", "T", "-", "2", "\n", "N", "o", "t", "i", "o", "n", "a", "l", " ", ",", " ", "5">>,
      <<"S", "w", "a", "p", " ", "r", "e", "f", ":", " ", "S", "-", "3", "\n", "A", "m", "o", "u", "n", "t", ":", " ", ",", ".", "5">>,
      <<"P", "r", "i", "n", "c", "i", "p", "a", "l", " ", "a", "m", "o", "u", "n", "t", ",", " ", "i", "n", " ", "U", "S", "D", ":", " ", "5", ",", "0", "0", "0">>,
      <<"a", "m", "o", "u", "n", "t", ":", " ", "n", "/", "a", "\n", "b", "u", "y", " ", "1", "2", ".">>,
      <<"h", "e", "l", "l", "o">> }

\* the model's replies to the detection call
DetectionReplies == { Raises, PyStr(<<" ", "s", "w", "a", "p", " ">>), PyStr(<<"F", "X">>) }

\* the model's replies to the extraction call: it raises, it returns text
\* that is no JSON, or a JSON object with or without a trade_type
ExtractionReplies ==
    { Raises,
      [json |-> FALSE, trade_type |-> "", fields |-> <<>>],
      [json |-> TRUE, trade_type |-> "", fields |-> [notional |-> Field(PyInt(5000), 9)]],
      [json |-> TRUE, trade_type |-> "TRS", fields |-> [notional |-> Field(PyInt(5000), 9)]] }

ExtractTradeDataCall ==
    /\ op = "idle"
    /\ \E client \in BOOLEAN, content \in LlmContents, trade_type \in {"", "TRS"},
          detection \in DetectionReplies, extraction \in ExtractionReplies :
          /\ call' = [client |-> client, content |-> content, trade_type |-> trade_type,
                      detection |-> detection, extraction |-> extraction]
          /\ ret' = extract_trade_data(client, content, trade_type, detection, extraction)
    /\ op' = "extract_trade_data"
    /\ UNCHANGED <<rules, store, requests, loop>>

NextLlm ==
    \/ ExtractTradeDataCall
    \/ Return

SpecLlm == Init /\ [][NextLlm]_vars


(***************************************************************************)
(* compare_trs_trade on extracted sets with null-valued entries (the       *)
(* adapter's shape of a missing field: value None, confidence 0.0).        *)
(***************************************************************************)
NullEntry == Field(PyNone, 0)

NullSets ==
    { ExtractedOf([f \in {"notional_amount", "underlier", "isin"} |->
          CASE f = "notional_amount" -> n
            [] f = "underlier" -> u
            [] OTHER -> i]) :
        n \in {Absent, NullEntry, Field(PyInt(1000000), 9)},
        u \in {Absent, NullEntry},
        i \in {Absent, NullEntry, Field(PyStr(<<"U", "S", "2">>), 9)} }

NullTrades ==
    { Trade(abc_1, n, i) : n \in {PyFloat(10000005), PyNone},
                           i \in {PyNone, PyStr(<<"U", "S", "2">>), PyStr(<<"N", "o", "n", "e">>), PyStr(<<"n", "i", "n", "e">>)} }

NullRuleSets ==
    { <<>>,
      <<NotionalRule>>,
      << Rule("n0", "notional_amount", "tolerance", Tol(10), "absolute", 0, TRUE) >>,
      << Rule("i0", "isin", "fuzzy", NoTol, NoUnit, 0, TRUE) >>,
      << Rule("i1", "isin", "exact", NoTol, NoUnit, 0, TRUE) >>,
      << Rule("i5", "isin", "exact", NoTol, NoUnit, 5, TRUE) >> }

NextNull ==
    \/ SetRules(NullRuleSets)
    \/ CompareTrsTrade(NullSets, NullTrades)
    \/ Return

SpecNull == Init /\ [][NextNull]_vars


(***************************************************************************)
(* Properties.  The definitions they share restate the specification's     *)
(* words, independently of the operators above.                            *)
(***************************************************************************)
\* the indices of the enabled rules for a field
EnabledFor(rs, f) == {i \in 1..Len(rs) : rs[i].field_name = f /\ rs[i].enabled}

Least(S) == CHOOSE i \in S : \A j \in S : i <= j

\* the rule the specification resolves for a field, when EnabledFor is not empty
Resolved(rs, f) == rs[Least(EnabledFor(rs, f))]

Compared == op = "compare_values"

HasRule == Compared /\ EnabledFor(rules, call.field_name) # {}

\* 'min_confidence_<value>' for the minimum confidences of the rule pools
MinConfidenceText(mc) ==
    CASE mc = 7 -> "min_confidence_0.7"
      [] mc = 9 -> "min_confidence_0.9"
      [] mc = 0 -> "min_confidence_0.0"

\* C1: whenever an enabled rule is resolved for the field and the confidence is
\* below its min_confidence, compare_values returns LOW_CONFIDENCE with
\* rule_applied 'min_confidence_<min_confidence>', whatever the rule type and
\* the two values.
C1_ConfidenceGate ==
    (HasRule /\ call.confidence < Resolved(rules, call.field_name).min_confidence)
    => /\ ret.match_status = "LOW_CONFIDENCE"
       /\ ret.rule_applied
            = MinConfidenceText(Resolved(rules, call.field_name).min_confidence)

\* C1 witness: a tolerance rule gated two equal values that would have matched.
C1_Witness ==
    /\ HasRule
    /\ call.confidence < Resolved(rules, call.field_name).min_confidence
    /\ Resolved(rules, call.field_name).rule_type = "tolerance"
    /\ call.extracted_value = call.system_value
    /\ ret.match_status = "LOW_CONFIDENCE"

\* the status the specification's aggregation rules give to a list of outcomes
NumberOf(cs, st) == Len(SelectSeq(cs, LAMBDA c : c.match_status = st))

ReferenceStatus(cs) ==
    IF cs = <<>> THEN "PENDING"
    ELSE IF NumberOf(cs, "MISMATCH") = 0
    THEN (IF NumberOf(cs, "WITHIN_TOLERANCE") + NumberOf(cs, "LOW_CONFIDENCE") = 0
          THEN "MATCH" ELSE "PARTIAL")
    ELSE IF NumberOf(cs, "MATCH") + NumberOf(cs, "WITHIN_TOLERANCE") > NumberOf(cs, "MISMATCH")
    THEN "PARTIAL"
    ELSE "MISMATCH"

Reversed(q) == [i \in 1..Len(q) |-> q[Len(q) + 1 - i]]

\* C2: _determine_overall_status equals the reference function of the outcome
\* counts (PENDING / MATCH / PARTIAL / strict majority, ties give MISMATCH) on
\* every list, and gives the same status to the list in reverse order.
C2_OverallStatus ==
    op = "_determine_overall_status"
    => /\ ret.status = ReferenceStatus(call.comparisons)
       /\ ret.status = _determine_overall_status(Reversed(call.comparisons))

\* C2 witness: as many MATCH as MISMATCH and nothing else gave MISMATCH.
C2_Witness ==
    /\ op = "_determine_overall_status"
    /\ NumberOf(call.comparisons, "MATCH") = NumberOf(call.comparisons, "MISMATCH")
    /\ NumberOf(call.comparisons, "MATCH") >= 1
    /\ NumberOf(call.comparisons, "WITHIN_TOLERANCE") = 0
    /\ NumberOf(call.comparisons, "LOW_CONFIDENCE") = 0
    /\ ret.status = "MISMATCH"

Searched == op = "find_best_match"

\* the extracted set holds a trade identifier with a non-empty value
HasIdentifier ==
    /\ "trade_id" \in DOMAIN call.extracted
    /\ call.extracted["trade_id"].value # PyNone
    /\ call.extracted["trade_id"].value # PyStr(<<>>)

\* the candidates whose identifier equals, ignoring case, the trimmed
\* extracted identifier
IdentifierMatches ==
    {i \in 1..Len(call.trs_trades) :
        lower(call.trs_trades[i]["trade_id"].s)
          = lower(strip(str(call.extracted["trade_id"].value)))}

\* the full trade comparison of the call's extracted set against candidate i
Against(i) == compare_trs_trade(rules, call.extracted, call.trs_trades[i], DocumentId)

ReferenceScore(cs) ==
    20 * NumberOf(cs, "MATCH") + 12 * NumberOf(cs, "WITHIN_TOLERANCE")
    + 5 * NumberOf(cs, "LOW_CONFIDENCE")

AbsoluteToleranceCase ==
    /\ HasRule
    /\ Resolved(rules, call.field_name).rule_type = "tolerance"
    /\ Resolved(rules, call.field_name).tolerance_unit = "absolute"
    /\ call.confidence >= Resolved(rules, call.field_name).min_confidence
    /\ IsNum(call.extracted_value) /\ IsNum(call.system_value)

\* |v1 - v2| of the call, in tenths
Difference == Abs(Tenths(call.extracted_value) - Tenths(call.system_value))

\* the tolerance of the resolved rule, in tenths: 0 when it has none
Tolerance ==
    IF Resolved(rules, call.field_name).tolerance_value.some
    THEN Resolved(rules, call.field_name).tolerance_value.x ELSE 0

\* C4: under an enabled absolute tolerance rule, for numbers passing the
\* confidence gate, the outcome is MATCH iff |v1-v2| = 0, WITHIN_TOLERANCE iff
\* 0 < |v1-v2| <= tolerance_value, and MISMATCH otherwise (no tolerance_value
\* counts as 0).
C4_AbsoluteTolerance ==
    AbsoluteToleranceCase
    => /\ ret.match_status = "MATCH" <=> Difference = 0
       /\ ret.match_status = "WITHIN_TOLERANCE" <=> (0 < Difference /\ Difference <= Tolerance)
       /\ ret.match_status = "MISMATCH" <=> Difference > Tolerance /\ Difference # 0

\* C4 witness: a difference exactly at a positive tolerance was within tolerance.
C4_Witness ==
    /\ AbsoluteToleranceCase
    /\ Difference > 0 /\ Difference = Tolerance
    /\ ret.match_status = "WITHIN_TOLERANCE"

\* the end-to-end scenario: trade_id 'ABC-1' and notional_amount 1000000, both
\* with confidence 0.9, against a record 'abc-1' / 1000000.5 under the single
\* rule tolerance / absolute / 1.0 / min_confidence 0.7 on notional_amount
Scenario ==
    /\ op = "compare_trs_trade"
    /\ rules = <<Rule("r1", "notional_amount", "tolerance", Tol(10), "absolute", 7, TRUE)>>
    /\ call.extracted = Extracted(Field(PyStr(<<"A", "B", "C", "-", "1">>), 9),
                                  Field(PyInt(1000000), 9), Absent)
    /\ call.system_trade["trade_id"] = PyStr(<<"a", "b", "c", "-", "1">>)
    /\ call.system_trade["notional_amount"] = PyFloat(10000005)

\* C5 as stated: in the scenario both field comparisons are MATCH and the
\* overall status is MATCH.
C5_BothMatch ==
    Scenario
    => /\ Len(ret.field_comparisons) = 2
       /\ \A i \in 1..Len(ret.field_comparisons) : ret.field_comparisons[i].match_status = "MATCH"
       /\ ret.status = "MATCH"

\* C5 amended: in the scenario trade_id is MATCH, notional_amount (0.5 apart,
\* within the tolerance of 1.0) is WITHIN_TOLERANCE, and the overall status is
\* PARTIAL.
C5_Scenario ==
    Scenario
    => /\ Len(ret.field_comparisons) = 2
       /\ ret.field_comparisons[1].field_name = "trade_id"
       /\ ret.field_comparisons[1].match_status = "MATCH"
       /\ ret.field_comparisons[2].field_name = "notional_amount"
       /\ ret.field_comparisons[2].match_status = "WITHIN_TOLERANCE"
       /\ ret.status = "PARTIAL"

\* C5 witness: the scenario was compared.
C5_Witness == Scenario /\ ret.status = "PARTIAL"

\* find_best_match went through the scoring loop
ScoringPath ==
    /\ Searched
    /\ call.trs_trades # <<>>
    /\ ~(HasIdentifier /\ IdentifierMatches # {})

\* the earliest candidate among those with the greatest reference score
EarliestBest ==
    Least({i \in 1..Len(call.trs_trades) : \A j \in 1..Len(call.trs_trades) :
              ReferenceScore(Against(i).field_comparisons)
                >= ReferenceScore(Against(j).field_comparisons)})

C7_NoneOnlyWithoutOverlap ==
    (Searched /\ call.trs_trades # <<>> /\ ret = NoResult)
    => \A i \in 1..Len(call.trs_trades) : Against(i).field_comparisons = <<>>

\* C8: with no candidate find_best_match returns None, and the unmatched result
\* the caller then builds has status MISMATCH, system_trade_id 'NOT_FOUND' and
\* no field comparison.
C8_NoCandidates ==
    /\ (Searched /\ call.trs_trades = <<>>) => ret = NoResult
    /\ op \in {"build_unmatched_result", "not_found_snapshot"}
       => /\ ret.status = "MISMATCH"
          /\ ret.system_trade_id = <<"N", "O", "T", "_", "F", "O", "U", "N", "D">>
          /\ ret.field_comparisons = <<>>

\* C8 witness: the caller built the unmatched result after a search with no
\* candidate.
C8_Witness == op = "build_unmatched_result" /\ call.trs_trades = <<>>

\* the call was decided by an enabled date_tolerance rule
DateToleranceCase ==
    HasRule /\ Resolved(rules, call.field_name).rule_type = "date_tolerance"

\* C9: under a date_tolerance rule, comparing (a, b) and comparing (b, a) with
\* the same confidence give the same match_status, parsable or not.
C9_DateSymmetry ==
    DateToleranceCase
    => ret.match_status
         = compare_values(rules, call.field_name, call.system_value,
               call.extracted_value, call.confidence).match_status

\* C9 witness: two different dates, the earlier one first, were within tolerance.
C9_Witness ==
    /\ DateToleranceCase
    /\ _parse_date(call.extracted_value).ok /\ _parse_date(call.system_value).ok
    /\ _parse_date(call.extracted_value).ord < _parse_date(call.system_value).ord
    /\ ret.match_status = "WITHIN_TOLERANCE"

\* C10: get_rule returns the first enabled rule for the field in list order,
\* None when there is none; compare_values is decided by that rule alone
\* (default policy, minimum confidence 0.0, when there is none), and the
\* disabled rules never change the outcome.
C10_RuleResolution ==
    Compared
    => /\ get_rule(rules, call.field_name)
            = IF EnabledFor(rules, call.field_name) = {} THEN NoRule
              ELSE Resolved(rules, call.field_name)
       /\ EnabledFor(rules, call.field_name) = {}
            => /\ ret.min_required_confidence = 0
               /\ ret.rule_applied = "default_exact"
       /\ EnabledFor(rules, call.field_name) # {}
            => ret = compare_values(<<Resolved(rules, call.field_name)>>, call.field_name,
                         call.extracted_value, call.system_value, call.confidence)
       /\ ret = compare_values(SelectSeq(rules, LAMBDA r : r.enabled), call.field_name,
                    call.extracted_value, call.system_value, call.confidence)

\* C10 witness: a disabled rule for the field came first, an enabled one for
\* the same field followed, and the confidence was below the disabled rule's
\* minimum only.
C10_Witness ==
    /\ Compared
    /\ Len(rules) = 2
    /\ rules[1].field_name = call.field_name /\ ~rules[1].enabled
    /\ rules[2].field_name = call.field_name /\ rules[2].enabled
    /\ call.confidence < rules[1].min_confidence
    /\ call.confidence >= rules[2].min_confidence
    /\ ret.match_status # "LOW_CONFIDENCE"

\* the schema fields with an extracted entry and a non-null attribute, in
\* schema order
Overlap ==
    SelectSeq(trs_fields,
        LAMBDA f : f \in DOMAIN call.extracted /\ call.system_trade[f] # PyNone)

\* C11: compare_trs_trade yields exactly one field comparison for each schema
\* field that has an extracted entry and a non-null attribute on the record,
\* in schema order, built from that entry and that attribute, and none for
\* any other field.
C11_OneComparisonPerOverlap ==
    op = "compare_trs_trade"
    => /\ Len(ret.field_comparisons) = Len(Overlap)
       /\ \A i \in 1..Len(Overlap) :
             /\ ret.field_comparisons[i].field_name = Overlap[i]
             /\ ret.field_comparisons[i].extracted_value = call.extracted[Overlap[i]].value
             /\ ret.field_comparisons[i].system_value = call.system_trade[Overlap[i]]
             /\ ret.field_comparisons[i].confidence = call.extracted[Overlap[i]].confidence

\* C11 witness: the extracted set had an entry outside the schema list, an
\* entry for an attribute the record lacks and entries for two it has; two
\* comparisons were made.
C11_Witness ==
    /\ op = "compare_trs_trade"
    /\ "counterparty" \in DOMAIN call.extracted
    /\ "underlier" \in DOMAIN call.extracted
    /\ "isin" \in DOMAIN call.extracted /\ call.system_trade["isin"] = PyNone
    /\ Len(ret.field_comparisons) = 2
    /\ ret.field_comparisons[1].field_name = "trade_id"
    /\ ret.field_comparisons[2].field_name = "trade_date"

PdfPrepared ==
    /\ op = "prepare_document_content"
    /\ call.doc.file_type = "pdf"
    /\ call.doc.file_path # NoPath

\* the trimmed text of the text layer and of the OCR fallback of the call's file
TextLayer == strip(_extract_pdf_text(call.doc.file_path))

OcrText == strip(_extract_pdf_ocr_text(call.doc.file_path).text)

Contains(content, part) ==
    \E i \in 1..(Len(content) - Len(part) + 1) :
        SubSeq(content, i, i + Len(part) - 1) = part

StartsWith(content, part) ==
    Len(part) <= Len(content) /\ SubSeq(content, 1, Len(part)) = part

EndsWith(content, part) ==
    /\ Len(part) <= Len(content)
    /\ SubSeq(content, Len(content) - Len(part) + 1, Len(content)) = part

OcrFallbackMarker == <<"O", "C", "R", " ", "F", "A", "L", "L", "B", "A", "C", "K">>

PdfPlaceholder == <<"[", "P", "D", "F", " ", "e", "v", "i", "d", "e", "n", "c", "e", ":", " ", "n", "o", " ", "e", "x", "t", "r", "a", "c", "t", "a", "b", "l", "e", " ", "t", "e", "x", "t", "]">>

\* C12 as stated: when the text layer is shorter than the minimum and OCR
\* returns text, the content is the text-layer text (if any), then an OCR
\* FALLBACK marker, then the OCR text; the content is never empty and is the
\* placeholder when neither produced text.
C12_MarkerWheneverOcrText ==
    PdfPrepared
    => /\ (Len(TextLayer) < min_pdf_text_length /\ OcrText # <<>>)
            => /\ StartsWith(ret.content, TextLayer)
               /\ EndsWith(ret.content, OcrText)
               /\ Contains(ret.content, OcrFallbackMarker)
       /\ ret.content # <<>>
       /\ (TextLayer = <<>> /\ OcrText = <<>>) => ret.content = PdfPlaceholder

\* What _combine_text gives: the marker separates the two texts when both exist; with an
\* empty text layer the content is the OCR text alone, without marker; the
\* text layer is never dropped; the content is never empty and is the
\* placeholder when neither produced text.
PdfMarkerBetweenBoth ==
    PdfPrepared
    => /\ (TextLayer # <<>> /\ Len(TextLayer) < min_pdf_text_length /\ OcrText # <<>>)
            => ret.content = TextLayer \o <<"\n", "\n", "[", "O", "C", "R", " ", "F", "A", "L", "L", "B", "A", "C", "K", "]", "\n">> \o OcrText
       /\ (TextLayer = <<>> /\ OcrText # <<>>)
            => ret.content = OcrText /\ ~Contains(ret.content, OcrFallbackMarker)
       /\ StartsWith(ret.content, TextLayer)
       /\ ret.content # <<>>
       /\ (TextLayer = <<>> /\ OcrText = <<>>) => ret.content = PdfPlaceholder

\* a short text layer and an OCR text were joined by the marker
PdfBothJoined ==
    /\ PdfPrepared
    /\ TextLayer # <<>> /\ Len(TextLayer) < min_pdf_text_length /\ OcrText # <<>>
    /\ Contains(ret.content, OcrFallbackMarker)

\* the call was decided by the strategy of an enabled rule of the given type:
\* the rule is the one resolved and the confidence passed its gate
DecidedBy(rule_type) ==
    /\ HasRule
    /\ Resolved(rules, call.field_name).rule_type = rule_type
    /\ call.confidence >= Resolved(rules, call.field_name).min_confidence

\* the two values of the call as lower-cased, trimmed strings
Folded(v) == strip(lower(str(v)))

\* the similarity ratio of the two folded values as <<numerator, denominator>>
Similarity == Ratio(Folded(call.extracted_value), Folded(call.system_value))

\* C13: under a fuzzy rule, equal lower-cased trimmed strings give MATCH;
\* otherwise a ratio r >= 0.95 gives MATCH, 0.8 <= r < 0.95 gives
\* WITHIN_TOLERANCE and r < 0.8 gives MISMATCH.
C13_FuzzyThresholds ==
    DecidedBy("fuzzy")
    => ret.match_status =
         IF Folded(call.extracted_value) = Folded(call.system_value) THEN "MATCH"
         ELSE IF 100 * Similarity[1] >= 95 * Similarity[2] THEN "MATCH"
         ELSE IF 10 * Similarity[1] >= 8 * Similarity[2] THEN "WITHIN_TOLERANCE"
         ELSE "MISMATCH"

\* C13 witness: a ratio of exactly 0.8 gave WITHIN_TOLERANCE.
C13_Witness ==
    /\ DecidedBy("fuzzy")
    /\ Similarity[2] > 0
    /\ 10 * Similarity[1] = 8 * Similarity[2]
    /\ ret.match_status = "WITHIN_TOLERANCE"

\* the call was decided by a percent tolerance rule on two numbers
PercentDecided ==
    /\ DecidedBy("tolerance")
    /\ Resolved(rules, call.field_name).tolerance_unit = "percent"
    /\ IsNum(call.extracted_value) /\ IsNum(call.system_value)

\* C14: under a percent tolerance rule on numbers v1 (extracted) and v2
\* (system): with v2 = 0 the outcome is MATCH iff v1 = 0, else MISMATCH; with
\* v2 # 0 it is MATCH iff v1 = v2, WITHIN_TOLERANCE iff
\* 0 < |v1 - v2| * 100 <= tolerance * |v2|, and MISMATCH otherwise.
C14_PercentTolerance ==
    PercentDecided
    => LET v1 == Tenths(call.extracted_value)
           v2 == Tenths(call.system_value)
           tolerance == TolOrZero(Resolved(rules, call.field_name))
       IN  ret.match_status =
             IF v2 = 0 THEN (IF v1 = 0 THEN "MATCH" ELSE "MISMATCH")
             ELSE IF v1 = v2 THEN "MATCH"
             ELSE IF Abs(v1 - v2) * 1000 <= tolerance * Abs(v2) THEN "WITHIN_TOLERANCE"
             ELSE "MISMATCH"

\* the formats of the ordered list that accept str(v)
Accepting(v) == { k \in 1..Len(DateFormats) : strptime(str(v), DateFormats[k]).ok }

\* the day number str(v) has under the first format that accepts it
FirstReading(v) ==
    strptime(str(v), DateFormats[CHOOSE k \in Accepting(v) : \A j \in Accepting(v) : k <= j]).ord

\* int(rule.tolerance_value or 0) of the rule that decided the call
ToleranceDays == IntOf(TolOrZero(Resolved(rules, call.field_name)))

\* C15: under a date_tolerance rule each value is read with the first format
\* of the ordered list that accepts it (day-first before month-first); if
\* either value matches no format the outcome is MISMATCH; otherwise with d
\* the absolute difference in days, d = 0 gives MATCH, 0 < d <= tolerance_days
\* gives WITHIN_TOLERANCE and d > tolerance_days gives MISMATCH.
C15_DateTolerance ==
    DecidedBy("date_tolerance")
    => ret.match_status =
         IF Accepting(call.extracted_value) = {} \/ Accepting(call.system_value) = {}
         THEN "MISMATCH"
         ELSE LET d == Abs(FirstReading(call.extracted_value) - FirstReading(call.system_value))
              IN  IF d = 0 THEN "MATCH"
                  ELSE IF d <= ToleranceDays THEN "WITHIN_TOLERANCE"
                  ELSE "MISMATCH"

\* C15 witness: a value that is a date both day-first and month-first was
\* read day-first and so matched the same day written year-first.
C15_Witness ==
    /\ DecidedBy("date_tolerance")
    /\ {2, 3} \subseteq Accepting(call.extracted_value)
    /\ strptime(str(call.extracted_value), DateFormats[2]).ord
         # strptime(str(call.extracted_value), DateFormats[3]).ord
    /\ Accepting(call.system_value) = {1}
    /\ ret.match_status = "MATCH"

\* compare_values ran for a field that has no enabled rule
DefaultPolicy == Compared /\ EnabledFor(rules, call.field_name) = {}

\* C16: with no enabled rule for the field and a confidence that is not
\* negative, compare_values returns MATCH iff the two values are equal as
\* case-insensitive, whitespace-trimmed strings and MISMATCH otherwise, with
\* rule_applied 'default_exact'; never WITHIN_TOLERANCE or LOW_CONFIDENCE.
C16_DefaultPolicy ==
    (DefaultPolicy /\ call.confidence >= 0)
    => /\ ret.match_status =
            IF Folded(call.extracted_value) = Folded(call.system_value)
            THEN "MATCH" ELSE "MISMATCH"
       /\ ret.rule_applied = "default_exact"
       /\ ret.match_status \notin {"WITHIN_TOLERANCE", "LOW_CONFIDENCE"}

\* C16 witness: with only a disabled rule for the field, two strings that
\* differ in case and surrounding blanks matched by default.
C16_Witness ==
    /\ DefaultPolicy /\ call.confidence >= 0
    /\ rules # <<>>
    /\ call.extracted_value.t = "str" /\ call.system_value.t = "str"
    /\ call.extracted_value.s # call.system_value.s
    /\ lower(call.extracted_value.s) # lower(call.system_value.s)
    /\ strip(call.extracted_value.s) # strip(call.system_value.s)
    /\ ret.match_status = "MATCH"
    /\ ret.rule_applied = "default_exact"

\* C17: compare_values never raises for an edge case: under a tolerance rule
\* with a value that float() does not accept, or under a date_tolerance rule
\* with a value no format accepts, it returns a FieldComparison whose
\* match_status is MISMATCH; under a fuzzy rule it returns a FieldComparison.
C17_NeverRaises ==
    Compared
    => /\ ~IsRaised(ret)
       /\ (DecidedBy("tolerance")
             /\ (~float(call.extracted_value).ok \/ ~float(call.system_value).ok))
            => ret.match_status = "MISMATCH"
       /\ (DecidedBy("date_tolerance")
             /\ (Accepting(call.extracted_value) = {} \/ Accepting(call.system_value) = {}))
            => ret.match_status = "MISMATCH"

\* compare_values raises only the OverflowError of float() under a tolerance
\* rule; every other edge case is encoded as MISMATCH
OnlyOverflowRaises ==
    Compared
    => /\ IsRaised(ret)
            <=> /\ DecidedBy("tolerance")
                /\ \/ Overflows(call.extracted_value)
                   \/ float(call.extracted_value).ok /\ Overflows(call.system_value)
       /\ ~IsRaised(ret)
            => /\ (DecidedBy("tolerance")
                     /\ (~float(call.extracted_value).ok \/ ~float(call.system_value).ok))
                    => ret.match_status = "MISMATCH"
               /\ (DecidedBy("date_tolerance")
                     /\ (Accepting(call.extracted_value) = {} \/ Accepting(call.system_value) = {}))
                    => ret.match_status = "MISMATCH"

\* a rule was dispatched: an enabled rule was resolved and its gate passed
Dispatched == HasRule /\ call.confidence >= Resolved(rules, call.field_name).min_confidence

\* the rule_applied the same call gets when rule is the only rule
DescriptorUnder(rule) ==
    compare_values(<<rule>>, call.field_name, call.extracted_value, call.system_value,
        call.confidence).rule_applied

\* the rules of the pools that would be dispatched for the call and differ
\* from the resolved rule in rule_type, tolerance_value or tolerance_unit
OtherRules ==
    { r \in TolRulePool \cup CmpRulePool \cup PctRulePool :
        /\ r.enabled /\ r.field_name = call.field_name /\ call.confidence >= r.min_confidence
        /\ ~Overflows(call.extracted_value) /\ ~Overflows(call.system_value)
        /\ <<r.rule_type, r.tolerance_value, r.tolerance_unit>>
             # << Resolved(rules, call.field_name).rule_type,
                  Resolved(rules, call.field_name).tolerance_value,
                  Resolved(rules, call.field_name).tolerance_unit >> }

\* C18: every FieldComparison has a rule_applied, and the descriptor of a
\* dispatched rule tells its rule_type, tolerance_value and tolerance_unit
\* apart from those of any rule that differs in one of them, tolerance_value
\* 0 versus no tolerance_value included.
C18_DescriptorsDistinct ==
    Compared
    => /\ ret.rule_applied # ""
       /\ Dispatched => \A r \in OtherRules : DescriptorUnder(r) # ret.rule_applied

\* the descriptors of two rules agree only when the rules differ in nothing
\* but tolerance_value 0 against no tolerance_value
DescriptorsApartButZero ==
    Compared
    => /\ ret.rule_applied # ""
       /\ Dispatched
            => \A r \in OtherRules :
                 DescriptorUnder(r) = ret.rule_applied
                 => /\ r.rule_type = Resolved(rules, call.field_name).rule_type
                    /\ r.tolerance_unit = Resolved(rules, call.field_name).tolerance_unit
                    /\ TolOrZero(r) = 0
                    /\ TolOrZero(Resolved(rules, call.field_name)) = 0

EvidencePrepared == op = "prepare_document_content"

\* the document is a file of a supported type and the optional parsers its
\* type needs are installed (for an email also the word-document parser its
\* attachments may need)
Processable ==
    /\ EvidencePrepared
    /\ call.doc.file_type \in {"image", "pdf", "docx", "msg"}
    /\ call.doc.file_path # NoPath
    /\ call.doc.file_type = "docx" => call.modules.DocxFile
    /\ call.doc.file_type = "msg" => call.modules.extract_msg /\ call.modules.DocxFile

\* a sub-step on the document's own file fails: OCR of the image, opening the
\* PDF or reading a page's text layer, opening or reading the word document,
\* opening the email container or creating its attachment directory
SubStepFails ==
    CASE call.doc.file_type = "image" ->
            process_document(call.doc.file_path, call.doc.file_path.ocr) = Raises
      [] call.doc.file_type = "pdf" ->
            \/ ~call.doc.file_path.opens
            \/ \E i \in 1..Len(call.doc.file_path.pages) : call.doc.file_path.pages[i].text = Raises
      [] call.doc.file_type = "docx" ->
            \/ ~call.doc.file_path.opens
            \/ \E i \in 1..Len(call.doc.file_path.paragraphs) : call.doc.file_path.paragraphs[i] = Raises
      [] call.doc.file_type = "msg" ->
            ~call.doc.file_path.opens \/ ~call.doc.file_path.makedirs

\* C19: for a document of type image, pdf, docx or msg with a file path and
\* its parsers installed, prepare_document_content never raises, whichever
\* sub-step fails: it returns evidence with non-empty content, and a failed
\* sub-step is recorded as a warning.
C19_NonRaising ==
    Processable
    => /\ ~IsRaised(ret)
       /\ ret.content # <<>>
       /\ SubStepFails => ret.metadata.warnings # <<>>

\* a .docx attachment of the email was saved and handed to the parser
DocxAttachmentParsed ==
    \E k \in 1..Len(call.io) :
        /\ call.io[k].event = "parse"
        /\ lower(splitext(AttachmentName(
                call.doc.file_path.attachments[call.io[k].index + 1], call.io[k].index)))
             = <<".", "d", "o", "c", "x">>

\* where prepare_document_content raises: no file path, an unsupported type,
\* a missing parser (for an email also when a saved .docx attachment meets the
\* missing word-document parser), and an email container that does not open
\* or whose attachment directory cannot be created
RaisesExactlyWhen ==
    EvidencePrepared
    => (IsRaised(ret)
          <=> /\ call.doc.file_type # "text"
              /\ \/ call.doc.file_path = NoPath
                 \/ call.doc.file_type \notin {"image", "pdf", "docx", "msg"}
                 \/ call.doc.file_type = "docx" /\ ~call.modules.DocxFile
                 \/ /\ call.doc.file_type = "msg"
                    /\ \/ ~call.modules.extract_msg
                       \/ ~call.doc.file_path.opens
                       \/ ~call.doc.file_path.makedirs
                       \/ ~call.modules.DocxFile /\ DocxAttachmentParsed)

\* when it returns for a file, the content is never empty
ReturnsContent ==
    (EvidencePrepared /\ call.doc.file_type # "text" /\ ~IsRaised(ret)) => ret.content # <<>>

\* an email was prepared: the container opened and its directory was made
MsgPrepared ==
    /\ EvidencePrepared
    /\ call.doc.file_type = "msg" /\ call.doc.file_path # NoPath
    /\ call.modules.extract_msg
    /\ call.doc.file_path.opens /\ call.doc.file_path.makedirs

\* the attachments of the call's email by their index from 0
Indices == 0..(Len(call.doc.file_path.attachments) - 1)

ExtensionOf(i) == lower(splitext(AttachmentName(call.doc.file_path.attachments[i + 1], i)))

\* attachment i is skipped: .zip or otherwise unsupported, or its save fails
Skipped(i) ==
    \/ ExtensionOf(i) = <<".", "z", "i", "p">>
    \/ ExtensionOf(i) \notin SUPPORTED_ATTACHMENT_EXTENSIONS
    \/ ~call.doc.file_path.attachments[i + 1].saves

\* the positions of the file operations of a kind on attachment i
Operations(kind, i) ==
    { k \in 1..Len(call.io) : call.io[k] = Event(kind, i) }

\* the index of the k-th attachment that is not skipped
Kept(k) ==
    CHOOSE i \in Indices :
        ~Skipped(i) /\ Cardinality({ j \in Indices : j < i /\ ~Skipped(j) }) = k - 1

\* every attachment was handled in exactly one of the two ways
EachHandledOnce ==
    /\ \A i \in Indices :
          IF Skipped(i)
          THEN Operations("save", i) = {} /\ Operations("parse", i) = {}
          ELSE /\ Cardinality(Operations("save", i)) = 1
               /\ Cardinality(Operations("parse", i)) = 1
               /\ \A s \in Operations("save", i), p \in Operations("parse", i) : s < p
    /\ Len(ret.metadata.warnings) = Cardinality({ i \in Indices : Skipped(i) })
    /\ ret.metadata.attachments_processed = Cardinality({ i \in Indices : ~Skipped(i) })
    /\ Len(ret.metadata.attachments) = ret.metadata.attachments_processed
    /\ \A k \in 1..Len(ret.metadata.attachments) :
          ret.metadata.attachments[k].attachment_name
            = AttachmentName(call.doc.file_path.attachments[Kept(k) + 1], Kept(k))
    /\ Len(ret.metadata.warnings) + ret.metadata.attachments_processed
         = Len(call.doc.file_path.attachments)

\* C20 as stated: no attachment aborts the email; a skipped attachment (.zip,
\* unsupported extension, failed save) adds one top-level warning and is never
\* parsed, every other attachment is saved, then parsed, and adds one metadata
\* entry; so warnings + attachments_processed = number of attachments.
C20_EachAttachmentOnce == MsgPrepared => (~IsRaised(ret) /\ EachHandledOnce)

\* a saved .docx attachment meets a missing word-document parser
DocxParserMissing ==
    /\ ~call.modules.DocxFile
    /\ \E i \in Indices : ~Skipped(i) /\ ExtensionOf(i) = <<".", "d", "o", "c", "x">>

\* C20 amended: unless a saved .docx attachment meets a missing word-document
\* parser (which aborts the email with the capability error), no attachment
\* aborts the email, each is handled in exactly one of the two ways, and
\* warnings + attachments_processed = number of attachments.
C20_EachAttachmentOnceWithParser ==
    MsgPrepared
    => IF DocxParserMissing
       THEN IsRaised(ret) /\ ret.raised = "ValueError"
       ELSE ~IsRaised(ret) /\ EachHandledOnce

\* C20 witness: of two attachments one failed to save and was skipped with a
\* warning, the other was saved and parsed.
C20_Witness ==
    /\ MsgPrepared /\ ~IsRaised(ret)
    /\ Len(call.doc.file_path.attachments) = 2
    /\ \E i \in Indices : ~call.doc.file_path.attachments[i + 1].saves
    /\ \E i \in Indices : ~Skipped(i)
    /\ Len(ret.metadata.warnings) = 1
    /\ ret.metadata.attachments_processed = 1
\* the processed attachments of the call's email that are image-typed
ProcessedImages ==
    { i \in Indices : ~Skipped(i) /\ ExtensionOf(i) \in ImageExtensions }

\* the path attachment i is saved under: <index>_<name> in the directory
\* <directory of the email>/<document id>_attachments
SavedPath(i) ==
    AttachmentPath(call.doc.file_path.attachments[i + 1],
                   call.doc.file_path.dir \o "/" \o call.doc.id \o "_attachments", i)

\* the text extracted from attachment i
TextOfAttachment(i) == strip(_extract_attachment_text(call.modules, SavedPath(i)).text)

\* the labelled texts of the processed attachments from index i on, each
\* preceded by a blank line
RECURSIVE LabelledFrom(_)
LabelledFrom(i) ==
    IF i \notin Indices THEN <<>>
    ELSE (IF ~Skipped(i) /\ TextOfAttachment(i) # <<>>
          THEN <<"\n", "\n">> \o <<"[", "A", "t", "t", "a", "c", "h", "m", "e", "n", "t", ":", " ">>
               \o AttachmentName(call.doc.file_path.attachments[i + 1], i)
               \o <<"]", "\n">> \o TextOfAttachment(i)
          ELSE <<>>)
         \o LabelledFrom(i + 1)

\* C21: the image path of email evidence is the saved path of the first
\* processed image-typed attachment, None when there is none, and a later image
\* never replaces it; the content is the header/body block followed by the
\* labelled text of every processed attachment with text, in attachment order.
C21_FirstImageAndLabelledText ==
    (MsgPrepared /\ ~IsRaised(ret))
    => /\ IF ProcessedImages = {} THEN ret.image_path = NoPath
          ELSE \E i \in ProcessedImages :
                  /\ \A j \in ProcessedImages : i <= j
                  /\ ret.image_path = SavedPath(i)
       /\ EndsWith(ret.content, LabelledFrom(0))
       /\ LET header == SubSeq(ret.content, 1, Len(ret.content) - Len(LabelledFrom(0)))
          IN  /\ Contains(header, <<"[", "E", "m", "a", "i", "l", " ", "B", "o", "d", "y", "]">>)
              /\ ~Contains(header, <<"[", "A", "t", "t", "a", "c", "h", "m", "e", "n", "t", ":", " ">>)

\* C21 witness: two image attachments were processed, both with text; the
\* image path is that of the first.
C21_Witness ==
    /\ MsgPrepared /\ ~IsRaised(ret)
    /\ ProcessedImages = {0, 1}
    /\ ret.image_path = SavedPath(0)
    /\ SavedPath(0) # SavedPath(1)
    /\ TextOfAttachment(0) # <<>> /\ TextOfAttachment(1) # <<>>
\* an image document with a file path was prepared
ImagePrepared ==
    /\ EvidencePrepared
    /\ call.doc.file_type = "image" /\ call.doc.file_path # NoPath

\* what the OCR service gave for the call's image: its full text, or Raises
OcrOutcome == process_document(call.doc.file_path, call.doc.file_path.ocr)

OcrFullText == IF OcrOutcome = Raises THEN <<>> ELSE OcrOutcome.s

ImagePlaceholder == <<"[", "I", "m", "a", "g", "e", " ", "e", "v", "i", "d", "e", "n", "c", "e", ":", " ", "O", "C", "R", " ", "t", "e", "x", "t", " ", "u", "n", "a", "v", "a", "i", "l", "a", "b", "l", "e", "]">>

\* C22 as stated: for every OCR outcome the evidence carries the input file
\* path as image_path; the content is the OCR full text when it is non-empty
\* and the placeholder when OCR failed or returned empty; an OCR exception is
\* recorded as a warning.
C22_ImageContent ==
    ImagePrepared
    => /\ ~IsRaised(ret)
       /\ ret.image_path = call.doc.file_path
       /\ ret.content = (IF OcrFullText # <<>> THEN OcrFullText ELSE ImagePlaceholder)
       /\ OcrOutcome = Raises => ret.metadata.warnings # <<>>

\* C22 amended: the content is the trimmed OCR full text when that is
\* non-empty, and the placeholder when OCR failed or returned empty or
\* whitespace-only text; the image path is always the input file path, and a
\* warning is recorded exactly when OCR raised.
C22_ImageContentTrimmed ==
    ImagePrepared
    => /\ ~IsRaised(ret)
       /\ ret.image_path = call.doc.file_path
       /\ ret.content # <<>>
       /\ ret.content = (IF strip(OcrFullText) # <<>> THEN strip(OcrFullText)
                         ELSE ImagePlaceholder)
       /\ (OcrOutcome = Raises) <=> (ret.metadata.warnings # <<>>)

\* C22 witness: OCR returned text with surrounding whitespace; the content is
\* the text without it and the image path is the input path.
C22_Witness ==
    /\ ImagePrepared
    /\ OcrFullText # <<>> /\ strip(OcrFullText) # OcrFullText /\ strip(OcrFullText) # <<>>
    /\ ret.content = strip(OcrFullText)
    /\ ret.image_path = call.doc.file_path
\* the page count of the call's PDF as the OCR fallback reads it (0 when the
\* file cannot be read)
PageCount == IF call.doc.file_path.opens THEN Len(call.doc.file_path.pages) ELSE 0

\* C23: OCR is attempted iff the trimmed text layer is shorter than
\* min_pdf_text_length; when it is not attempted no page is sent to OCR and the
\* content is the text layer alone, without marker; when it is attempted, OCR
\* is called once for each of the pages 0 .. min(page count, max_pdf_ocr_pages)
\* - 1, in increasing order, and for no other page, and the text of every such
\* page is in the content even when OCR of another page raised.
C23_OcrFallback ==
    PdfPrepared
    => /\ ret.metadata.ocr_used <=> (Len(TextLayer) < min_pdf_text_length)
       /\ ~ret.metadata.ocr_used
            => /\ call.ocr_pages = <<>>
               /\ ret.content = TextLayer
               /\ ~Contains(ret.content, OcrFallbackMarker)
       /\ ret.metadata.ocr_used
            => /\ call.ocr_pages = [k \in 1..Min(PageCount, max_pdf_ocr_pages) |-> k - 1]
               /\ ret.metadata.ocr_pages_processed = Len(call.ocr_pages)
               /\ \A k \in 1..Len(call.ocr_pages) :
                     LET text == call.doc.file_path.pages[call.ocr_pages[k] + 1].ocr
                     IN  (text # Raises /\ strip(OrEmpty(text)) # <<>>)
                         => Contains(ret.content, strip(OrEmpty(text)))

\* C23 witness: a PDF of more pages than max_pdf_ocr_pages with a short text
\* layer; OCR of the first page raised, the later pages were still sent to OCR
\* and the text of one of them is in the content.
C23_Witness ==
    /\ PdfPrepared
    /\ PageCount > max_pdf_ocr_pages
    /\ ret.metadata.ocr_used
    /\ call.ocr_pages = <<0, 1, 2>>
    /\ call.doc.file_path.pages[1].ocr = Raises
    /\ call.doc.file_path.pages[3].ocr # Raises
    /\ strip(OrEmpty(call.doc.file_path.pages[3].ocr)) # <<>>
    /\ Contains(ret.content, strip(OrEmpty(call.doc.file_path.pages[3].ocr)))

(***************************************************************************)
(* The document lifecycle and the requests of the API.                     *)
(***************************************************************************)
StoredStatus == store.document.status

\* the forward chain of the lifecycle
StatusRank(status) ==
    CASE status = "PENDING" -> 0
      [] status = "PROCESSING" -> 1
      [] status = "EXTRACTED" -> 2
      [] status = "VALIDATED" -> 3
      [] OTHER -> 4

\* C24: a document's stored status starts at PENDING and every change of it
\* moves it forward along PENDING -> PROCESSING -> EXTRACTED -> VALIDATED or
\* into ERROR: it never moves backward (not from EXTRACTED, VALIDATED or
\* ERROR back to PROCESSING) and VALIDATED is reached only from EXTRACTED.
C24_StatusMovesForward ==
    [][StoredStatus' # StoredStatus
       => \/ StoredStatus = "NONE" /\ StoredStatus' = "PENDING"
          \/ StoredStatus \notin {"NONE", "ERROR"} /\ StoredStatus' = "ERROR"
          \/ /\ StoredStatus \in {"PENDING", "PROCESSING", "EXTRACTED"}
             /\ StoredStatus' \in {"PROCESSING", "EXTRACTED", "VALIDATED"}
             /\ StatusRank(StoredStatus') > StatusRank(StoredStatus)
             /\ StoredStatus' = "VALIDATED" => StoredStatus = "EXTRACTED"]_vars

\* request r is answered in this step after one of its steps raised
FailsNow(r) ==
    /\ requests[r].kind \in {"extract_document", "validate_document"}
    /\ InFlight(r)
    /\ requests'[r].pc = "done"
    /\ requests'[r].raised

\* C25: when a step of the extract or validate pipeline raises after the
\* document was found, the request leaves the stored status PROCESSING or
\* ERROR (never PENDING, EXTRACTED or VALIDATED) and is answered with the
\* failure.
C25_FailureLeavesProcessingOrError ==
    [][\A r \in Requests :
          FailsNow(r) => /\ StoredStatus' \in {"PROCESSING", "ERROR"}
                         /\ requests'[r].response = 500]_vars

ExtractCalled == op = "extract_trade_data"

\* the language-model extraction call raised, or no client is configured
ExtractionFailed == ExtractCalled /\ (~call.client \/ call.extraction = Raises)

\* C27: when the language-model extraction call raises, or no client is
\* configured, extract_trade_data does not raise and makes no second
\* extraction call: it returns the extracted field set of the local fallback
\* (with the document's text as raw_text).
C27_FallbackOnFailure ==
    ExtractionFailed
    => /\ ~IsRaised(ret.result)
       /\ Len(SelectSeq(ret.calls, LAMBDA c : c = "extract")) = (IF call.client THEN 1 ELSE 0)
       /\ ret.result.raw_text = call.content
       /\ "notional" \in DOMAIN ret.result.fields
       /\ ret.result.fields.notional.confidence = 6

(***************************************************************************)
(* The results of find_best_match.                                         *)
(***************************************************************************)
\* find_best_match returned a trade comparison
Found == Searched /\ ret # NoResult /\ ~IsRaised(ret)

\* C28: every result find_best_match returns, on the identifier short-circuit
\* or on the scoring path, has at least one field comparison, an overall
\* status other than PENDING and a machine confidence.
C28_ResultHasComparison ==
    Found
    => /\ Len(ret.field_comparisons) >= 1
       /\ ret.status \in {"MATCH", "PARTIAL", "MISMATCH"}
       /\ ret.machine_confidence # NoFloat

\* C28 witness: on the scoring path the first candidate has no field in
\* common with the extracted set, a later one has, and its comparison was
\* returned.
C28_Witness ==
    /\ Found
    /\ ScoringPath
    /\ Len(call.trs_trades) >= 2
    /\ Against(1).field_comparisons = <<>>
    /\ Against(1).status = "PENDING"
    /\ Len(ret.field_comparisons) >= 1

\* MATCH > PARTIAL > MISMATCH
StatusOrder(status) ==
    CASE status = "MATCH" -> 2
      [] status = "PARTIAL" -> 1
      [] OTHER -> 0

\* C29 as stated: on the scoring path the overall status of the result is
\* never worse than the overall status of the comparison against any
\* candidate with at least one field comparison.
C29_StatusNeverWorse ==
    (ScoringPath /\ Found)
    => \A i \in 1..Len(call.trs_trades) :
          Against(i).field_comparisons # <<>>
          => StatusOrder(ret.status) >= StatusOrder(Against(i).status)

\* C29 amended: on the scoring path the score of the result is never lower
\* than the score of the comparison against any candidate; against a
\* candidate that compares as overall MATCH it is at least that candidate's
\* number of compared fields.
C29_ScoreNeverLower ==
    (ScoringPath /\ Found)
    => \A i \in 1..Len(call.trs_trades) :
          /\ ReferenceScore(ret.field_comparisons)
               >= ReferenceScore(Against(i).field_comparisons)
          /\ Against(i).status = "MATCH"
             => ReferenceScore(ret.field_comparisons) >= 20 * Len(Against(i).field_comparisons)

\* C29 witness: the result is overall MISMATCH although another candidate
\* compares as overall MATCH, with a score that is not higher.
C29_Witness ==
    /\ ScoringPath /\ Found
    /\ ret.status = "MISMATCH"
    /\ \E i \in 1..Len(call.trs_trades) :
          /\ Against(i).status = "MATCH"
          /\ ReferenceScore(ret.field_comparisons)
               >= ReferenceScore(Against(i).field_comparisons)

(***************************************************************************)
(* Null-valued extracted fields.                                           *)
(***************************************************************************)
TradeCompared == op = "compare_trs_trade" /\ ~IsRaised(ret)

\* the schema fields whose extracted entry has the value None while the
\* record has the attribute
NullCompared ==
    {f \in DOMAIN call.extracted :
        /\ \E k \in 1..Len(trs_fields) : trs_fields[k] = f
        /\ call.extracted[f].value = PyNone
        /\ call.system_trade[f] # PyNone}

\* the comparisons of the result for field f
ComparisonsOf(f) == SelectSeq(ret.field_comparisons, LAMBDA c : c.field_name = f)

\* the status the claim gives a null-valued field: LOW_CONFIDENCE when its
\* rule has a min_confidence above 0, MISMATCH otherwise
NullStatus(f) ==
    IF EnabledFor(rules, f) # {} /\ Resolved(rules, f).min_confidence > 0
    THEN "LOW_CONFIDENCE"
    ELSE "MISMATCH"

\* C30: a null-valued extracted entry (value None, confidence 0.0) is not
\* skipped by compare_trs_trade: when the record has the attribute the field
\* is compared once, as MISMATCH, or as LOW_CONFIDENCE when its rule has
\* min_confidence > 0, so that the overall status is not MATCH and the
\* machine confidence averages over it; a field without entry is not compared.
C30_NullValueCompared ==
    TradeCompared
    => /\ \A f \in NullCompared :
             /\ Len(ComparisonsOf(f)) = 1
             /\ ComparisonsOf(f)[1].match_status = NullStatus(f)
             /\ ComparisonsOf(f)[1].confidence = 0
             /\ ret.status # "MATCH"
       /\ \A k \in 1..Len(trs_fields) :
             trs_fields[k] \notin DOMAIN call.extracted => ComparisonsOf(trs_fields[k]) = <<>>
       /\ ret.machine_confidence = _average_comparison_confidence(ret.field_comparisons)

\* what holds of a null-valued entry: it is compared once with confidence
\* 0.0, and it is MISMATCH or LOW_CONFIDENCE unless the text of the record's
\* attribute is, or resembles, 'none' and the field has no rule or a fuzzy one
NullComparedOnce ==
    TradeCompared
    => \A f \in NullCompared :
          /\ Len(ComparisonsOf(f)) = 1
          /\ ComparisonsOf(f)[1].confidence = 0
          /\ \/ ComparisonsOf(f)[1].match_status = NullStatus(f)
             \/ /\ call.system_trade[f] \in {PyStr(<<"N", "o", "n", "e">>)}
                /\ \/ EnabledFor(rules, f) = {}
                   \/ Resolved(rules, f).rule_type = "fuzzy"

====
